---- MODULE Spec2Model ----
(***************************************************************************)
(* Model of the OSM region extractor:                                      *)
(*   - parseAndStreamFeatures / extractRegion  (scripts/extract-single.ts) *)
(*   - buildSqlite                             (scripts/build-sqlite.ts)   *)
(*                                                                         *)
(* Five specifications share the module:                                   *)
(*   SpecClassify  one input line run through the per-line classifier      *)
(*   SpecExtract   one extractRegion run, files and exit paths included    *)
(*   SpecBuild     one buildSqlite run, files and the transaction included *)
(*   SpecLegacy    one run of the three-bundle extractRegion               *)
(*   SpecFunctions one call of a pure helper on a bounded input            *)
(*                                                                         *)
(* Coordinates are integers in units of 1e-8 degree, so that rounding to   *)
(* 7 decimal digits is observable.  JavaScript values that may be          *)
(* undefined or NaN are tagged records (Undefined, NaN, Num(n), Obj(v)).   *)
(* The vertices lie within a few metres of (0, 0), where the haversine     *)
(* distance is the plane distance; a centre that is not on the grid is an  *)
(* exact fraction.                                                         *)
(***************************************************************************)
EXTENDS Integers, Sequences, FiniteSets, TLC

VARIABLES
  \* --- classifier harness ---
  cIn,        \* the input line handed to the per-line classifier
  cOut,       \* its result: [threw, acc]
  cpc,        \* "idle" | "ready" | "done"
  \* --- extractRegion ---
  epc,        \* position in extractRegion
  efs,        \* file system: path -> "absent" | "old" | "partial" | "complete"
  eleft,      \* number of input lines not yet read
  eacc,       \* accumulators of parseAndStreamFeatures
  ebundle,    \* content written to the bundle files, per path
  ecause,     \* why the run ended early ("none" when it did not)
  eclock,     \* the current date, as a day number
  eversion,   \* the version computed at step 5 (0 before)
  \* --- buildSqlite ---
  bpc,        \* position in buildSqlite
  bfs,        \* set of paths that exist in the output directory
  bin,        \* content of the input bundles
  bdb,        \* the database: committed rows and rows of the open transaction
  bloc,       \* locals of buildSqlite (meta, counters, flags, stream cursor)
  bgz,        \* content of <region>.sqlite.gz
  bcause,     \* why the build failed ("none" when it did not)
  \* --- the extractRegion that writes core, ways and surfaces bundles ---
  lpc,        \* position in that extractRegion
  lclock,     \* the current date, as a day number
  lleft,      \* number of input lines not yet read in the current stream
  lout,       \* the bundle documents written so far
  \* --- function harness ---
  fpc,        \* "idle" | "ready" | "done"
  fIn,        \* the arguments of the function under test
  fOut        \* its result

classifyVars == <<cIn, cOut, cpc>>
extractVars  == <<epc, efs, eleft, eacc, ebundle, ecause, eclock, eversion>>
buildVars    == <<bpc, bfs, bin, bdb, bloc, bgz, bcause>>
legacyVars   == <<lpc, lclock, lleft, lout>>
pureVars     == <<fpc, fIn, fOut>>
vars         == <<cIn, cOut, cpc, epc, efs, eleft, eacc, ebundle, ecause,
                  eclock, eversion, bpc, bfs, bin, bdb, bloc, bgz, bcause,
                  lpc, lclock, lleft, lout, fpc, fIn, fOut>>

----------------------------------------------------------------------------
(* Bounds *)

MaxLines   == 3     \* lines of the intermediate GeoJSON sequence
MaxWayNum  == 12    \* largest OSM way number carried by a feature id
MaxItems   == 2     \* elements per bundle array read by the loader
MaxDay     == 2     \* days the wall clock can reach during one run

----------------------------------------------------------------------------
(* JavaScript values *)

Undefined == [t |-> "undefined"]
NaN       == [t |-> "NaN"]
Num(n)    == [t |-> "number", v |-> n]
Obj(o)    == [t |-> "object", v |-> o]

\* props[key] is a non-empty string (JavaScript truthiness of a tag value)
Truthy(props, key) == key \in DOMAIN props /\ props[key] # ""
\* props[key] === value
Is(props, key, value) == key \in DOMAIN props /\ props[key] = value

----------------------------------------------------------------------------
(* Strings are sequences of one-character strings *)

DigitChars == <<"0", "1", "2", "3", "4", "5", "6", "7", "8", "9">>
IsDigit(c) == \E i \in 1..10 : DigitChars[i] = c
DigitVal(c) == (CHOOSE i \in 1..10 : DigitChars[i] = c) - 1

RECURSIVE Digits(_)
\* decimal representation of a natural number
Digits(n) == IF n < 10 THEN <<DigitChars[n + 1]>>
             ELSE Digits(n \div 10) \o <<DigitChars[(n % 10) + 1]>>

startsWith(s, prefix) ==
  Len(s) >= Len(prefix) /\ SubSeq(s, 1, Len(prefix)) = prefix

\* s.substring(from), from counted from 0
substring(s, from) == SubSeq(s, from + 1, Len(s))

RECURSIVE SplitFrom(_, _, _, _)
\* s.split(sep): the list of segments, cur is the segment being read
SplitFrom(s, i, sep, cur) ==
  IF i > Len(s) THEN <<cur>>
  ELSE IF s[i] = sep THEN <<cur>> \o SplitFrom(s, i + 1, sep, <<>>)
  ELSE SplitFrom(s, i + 1, sep, Append(cur, s[i]))
split(s, sep) == SplitFrom(s, 1, sep, <<>>)

\* StrWhiteSpaceChar of parseInt: tab, line feed, vertical tab, form feed,
\* carriage return, space, no-break space, U+1680 and U+FEFF; the other
\* space separators and the line and paragraph separators cannot be written
\* in a TLA+ string and stand here under their code points
WhiteSpaceChars ==
  {" ", "\t", "\n", "\r", "\f", "", " ", " ", "﻿",
   "<U+2000>", "<U+2001>", "<U+2002>", "<U+2003>",
   "<U+2004>", "<U+2005>", "<U+2006>", "<U+2007>",
   "<U+2008>", "<U+2009>", "<U+200A>", "<U+2028>",
   "<U+2029>", "<U+202F>", "<U+205F>", "<U+3000>"}

RECURSIVE SkipSpaces(_)
\* the string without its leading white space and line terminators
SkipSpaces(s) ==
  IF s # <<>> /\ s[1] \in WhiteSpaceChars THEN SkipSpaces(Tail(s)) ELSE s

RECURSIVE ParseDigits(_, _)
\* value of the longest prefix of digits of s, continuing from acc
ParseDigits(s, acc) ==
  IF s # <<>> /\ IsDigit(s[1]) THEN ParseDigits(Tail(s), 10 * acc + DigitVal(s[1]))
  ELSE acc

\* parseInt(s, 10): leading white space skipped, optional sign, then the
\* longest run of digits; NaN when there is no digit
parseInt(s) ==
  LET t    == SkipSpaces(s)
      neg  == t # <<>> /\ t[1] = "-"
      body == IF t # <<>> /\ t[1] \in {"-", "+"} THEN Tail(t) ELSE t
  IN IF body = <<>> \/ ~IsDigit(body[1]) THEN NaN
     ELSE Num(IF neg THEN 0 - ParseDigits(body, 0) ELSE ParseDigits(body, 0))

----------------------------------------------------------------------------
(* Constants of scripts/extract-single.ts *)

TRAFFIC_CALMING_TYPES ==
  {"bump", "mini_bumps", "hump", "table", "cushion", "dynamic_bump",
   "dip", "double_dip"}

\* faulty variant: "cushion" missing from the bump synonyms
bumpTypes_WithoutCushion == {"bump", "mini_bumps", "hump", "table", "dynamic_bump"}
bumpTypes == {"bump", "mini_bumps", "hump", "table", "cushion", "dynamic_bump"}
dipTypes  == {"dip", "double_dip"}

\* faulty variant: "table" missing from the bump synonyms, so it passes through
mapTrafficCalmingType_TableUnmapped(osmType) ==
  IF osmType \in bumpTypes \ {"table"} THEN "speed_bump"
  ELSE IF osmType \in dipTypes THEN "dip"
  ELSE osmType

mapTrafficCalmingType(osmType) ==
  IF osmType \in bumpTypes THEN "speed_bump"
  ELSE IF osmType \in dipTypes THEN "dip"
  ELSE osmType

relevantKeys == {"name", "maxspeed", "surface", "highway", "ref"}

\* faulty variant: the mapping is returned also when it is empty
extractRelevantTags_EmptyMapping(props) ==
  LET keys == {k \in relevantKeys : Truthy(props, k)}
  IN Obj([k \in keys |-> props[k]])

\* the allow-listed tags that have a non-empty value, undefined when none
extractRelevantTags(props) ==
  LET keys == {k \in relevantKeys : Truthy(props, k)}
  IN IF keys = {} THEN Undefined ELSE Obj([k \in keys |-> props[k]])

RECURSIVE SumCoord(_, _)
SumCoord(coords, i) ==
  IF coords = <<>> THEN 0 ELSE Head(coords)[i] + SumCoord(Tail(coords), i)

RECURSIVE Gcd(_, _)
Gcd(a, b) == IF b = 0 THEN a ELSE Gcd(b, a % b)

\* the number a / b (b > 0): Num(q) when b divides a, otherwise the reduced
\* fraction v / per
Quotient(a, b) ==
  LET g == Gcd(IF a < 0 THEN 0 - a ELSE a, b)
  IN IF a % b = 0 THEN Num(a \div b)
     ELSE [t |-> "number", v |-> a \div g, per |-> b \div g]

\* q * n for a number q whose denominator divides n
Times(q, n) == IF "per" \in DOMAIN q THEN q.v * (n \div q.per) ELSE q.v * n

\* [sumLon / n, sumLat / n]; 0 / 0 is NaN
calculateCentroid(coords) ==
  IF Len(coords) = 0 THEN <<NaN, NaN>>
  ELSE <<Quotient(SumCoord(coords, 1), Len(coords)),
         Quotient(SumCoord(coords, 2), Len(coords))>>

\* 1 / c^2 for c = 6371000 * PI / 180 * 1e-8 metres per 1e-8 degree:
\* 808779.35087..., taken as whole + num / den
UnitsPerMetreSquared == [whole |-> 808779, num |-> 20, den |-> 57]

\* the haversine distance d between the centre and a vertex is at least
\* h / 2 metres, for a way of n vertices within a few metres of (0, 0), where
\* d = c * sqrt(dLon^2 + dLat^2); dd is n^2 times the squared distance in
\* units of 1e-8 degree: 4 * dd >= h^2 * n^2 / c^2
atLeastHalves(dd, n, h) ==
  LET T   == h * h * n * n
      q   == (4 * dd) \div T
      rem == (4 * dd) % T
  IN \/ q > UnitsPerMetreSquared.whole
     \/ /\ q = UnitsPerMetreSquared.whole
        /\ rem * UnitsPerMetreSquared.den >= UnitsPerMetreSquared.num * T

\* Math.round of that distance: the r with r - 1/2 <= d < r + 1/2
roundedDistance(dd, n) ==
  CHOOSE r \in 0..25 :
    /\ r = 0 \/ atLeastHalves(dd, n, 2 * r - 1)
    /\ ~atLeastHalves(dd, n, 2 * r + 1)

\* Math.round(calculateMaxRadius(coords, center)): the largest rounded
\* distance from the centre to a vertex, 0 for an empty list
calculateMaxRadius(coords, center) ==
  LET n == Len(coords)
      dLon(k) == coords[k][1] * n - Times(center[1], n)
      dLat(k) == coords[k][2] * n - Times(center[2], n)
      ds == {roundedDistance(dLon(k) * dLon(k) + dLat(k) * dLat(k), n) : k \in 1..n}
  IN IF n = 0 THEN 0 ELSE CHOOSE r \in ds : \A o \in ds : r >= o

RECURSIVE Log2Floor(_, _)
\* floor(log2(num / den)) for positive integers: the binary exponent of the
\* double nearest to num / den
Log2Floor(num, den) ==
  IF num >= den
  THEN IF num \div 2 >= den THEN 1 + Log2Floor(num \div 2, den) ELSE 0
  ELSE Log2Floor(2 * num, den) - 1

RECURSIVE ShiftMod(_, _)
\* a * 2^e modulo 1e8
ShiftMod(a, e) ==
  IF e = 0 THEN a
  ELSE IF e >= 4 THEN ShiftMod((16 * a) % 100000000, e - 4)
  ELSE ShiftMod((2 * a) % 100000000, e - 1)

\* x is a tie 10k + 5 (in units of 1e-8 degree) whose double product
\* x * 1e7 falls below the tie.  The double d nearest to x / 1e8 has a
\* 53-bit significand: with e = 52 - Log2Floor(|x|, 1e8) its error is given
\* by r = |x| * 2^e mod 1e8 (d is short of |x| / 1e8 by r / 1e8 units of the
\* last place when r < 5e7, over it by 1 - r / 1e8 otherwise).  The product
\* leaves the tie when that error, times 1e7, exceeds half a unit of the
\* last place of k + 1/2, that is 10 * 2^22 / 1e8 of d's when the exponents
\* of the two differ by 23 (never when they differ by 24).
LowTie(x) ==
  LET a  == IF x < 0 THEN 0 - x ELSE x
      Ed == Log2Floor(a, 100000000)
      r  == ShiftMod(a % 100000000, 52 - Ed)
  IN /\ a % 10 = 5
     /\ Log2Floor(a, 10) - Ed = 23
     /\ IF x > 0 THEN 41943040 < r /\ r < 50000000
                 ELSE 50000000 < r /\ r < 58056960

\* faulty variant: Math.round(x * 1e7) / 1e6, the divisor one digit short
Round7_ShortDivisor(x) == ((x + 5) \div 10) * 100
\* Math.round(x * 1e7) / 1e7 on a coordinate given in units of 1e-8 degree:
\* to the nearest multiple of 1e-7; Math.round rounds a tie towards
\* +Infinity, and the product of a tie of LowTie is below the tie
Round7(x) ==
  IF LowTie(x) THEN ((x - 5) \div 10) * 10 ELSE ((x + 5) \div 10) * 10

RECURSIVE FlattenRounded(_)
\* the flat list [lon1, lat1, lon2, lat2, ...] of the rounded vertices
FlattenRounded(coords) ==
  IF coords = <<>> THEN <<>>
  ELSE <<Round7(Head(coords)[1]), Round7(Head(coords)[2])>>
         \o FlattenRounded(Tail(coords))

----------------------------------------------------------------------------
(* The body of the for-await loop of parseAndStreamFeatures.               *)
(* acc holds trafficCalming, roundabouts, the bytes written to rsStream    *)
(* (rsTemp, a list of tokens: "," separators and entries) and              *)
(* roadSurfaceCount.                                                       *)
(* A step returns [threw, acc]: threw is TRUE when a TypeError leaves the  *)
(* loop, acc then holds what had been pushed before it.                    *)

EmptyAcc ==
  [trafficCalming |-> <<>>, roundabouts |-> <<>>, rsTemp |-> <<>>,
   roadSurfaceCount |-> 0]

Ok(acc)    == [threw |-> FALSE, acc |-> acc]
Throw(acc) == [threw |-> TRUE, acc |-> acc]

\* faulty variant: the record is put in front of the array
pushTC_Unshift(acc, rec) ==
  [acc EXCEPT !.trafficCalming = <<rec>> \o acc.trafficCalming]

pushTC(acc, rec) ==
  [acc EXCEPT !.trafficCalming = Append(acc.trafficCalming, rec)]
pushRA(acc, rec) ==
  [acc EXCEPT !.roundabouts = Append(acc.roundabouts, rec)]

\* feature.id -> wayId of a bridge or tunnel record
parseWayId(f) ==
  IF f.hasId /\ f.id # <<>>
  THEN IF startsWith(f.id, <<"w">>) THEN parseInt(substring(f.id, 1))
       ELSE IF startsWith(f.id, <<"w", "a", "y", "/">>)
            THEN parseInt(split(f.id, "/")[2])
       ELSE Undefined
  ELSE Undefined

handlePoint(f, acc) ==
  IF ~f.hasCoords THEN Throw(acc)       \* [lon, lat] = undefined
  ELSE IF ~f.hasProps THEN Throw(acc)   \* undefined.traffic_calming
  ELSE
    LET lon == f.coords.pt[1]
        lat == f.coords.pt[2]
        p   == f.props
        a1  == IF Truthy(p, "traffic_calming")
                  /\ p["traffic_calming"] \in TRAFFIC_CALMING_TYPES
               THEN pushTC(acc, [lat |-> lat, lon |-> lon,
                       type |-> mapTrafficCalmingType(p["traffic_calming"]),
                       tags |-> extractRelevantTags(p),
                       endLat |-> Undefined, endLon |-> Undefined,
                       wayId |-> Undefined])
               ELSE acc
        a2  == IF Is(p, "highway", "speed_camera") \/ Is(p, "enforcement", "maxspeed")
               THEN pushTC(a1, [lat |-> lat, lon |-> lon, type |-> "speed_camera",
                       tags |-> extractRelevantTags(p),
                       endLat |-> Undefined, endLon |-> Undefined,
                       wayId |-> Undefined])
               ELSE a1
        a3  == IF Is(p, "highway", "mini_roundabout")
               THEN pushRA(a2, [lat |-> Num(lat), lon |-> Num(lon),
                       type |-> "mini_roundabout", radius |-> Num(3)])
               ELSE a2
    IN Ok(a3)

roundaboutWay(coords, acc) ==
  LET center == calculateCentroid(coords)
  IN pushRA(acc, [lat |-> center[2], lon |-> center[1], type |-> "roundabout",
                  radius |-> Num(calculateMaxRadius(coords, center))])

lineRoundabout(f, acc) ==
  IF Is(f.props, "junction", "roundabout")
  THEN IF ~f.hasCoords THEN Throw(acc)  \* for (... of undefined)
       ELSE Ok(roundaboutWay(f.coords.line, acc))
  ELSE Ok(acc)

\* faulty variant: tunnel=yes takes precedence over bridge=yes
lineBridgeTunnel_TunnelFirst(f, acc) ==
  IF Is(f.props, "bridge", "yes") \/ Is(f.props, "tunnel", "yes")
  THEN IF ~f.hasCoords \/ f.coords.line = <<>> THEN Throw(acc)
       ELSE LET first == f.coords.line[1]
                last  == f.coords.line[Len(f.coords.line)]
            IN Ok(pushTC(acc, [lat |-> first[2], lon |-> first[1],
                    type |-> IF Is(f.props, "tunnel", "yes") THEN "tunnel" ELSE "bridge",
                    tags |-> extractRelevantTags(f.props),
                    endLat |-> Num(last[2]), endLon |-> Num(last[1]),
                    wayId |-> parseWayId(f)]))
  ELSE Ok(acc)

lineBridgeTunnel(f, acc) ==
  IF Is(f.props, "bridge", "yes") \/ Is(f.props, "tunnel", "yes")
  THEN IF ~f.hasCoords \/ f.coords.line = <<>> THEN Throw(acc)  \* [a, b] = coords[0]
       ELSE LET first == f.coords.line[1]
                last  == f.coords.line[Len(f.coords.line)]
            IN Ok(pushTC(acc, [lat |-> first[2], lon |-> first[1],
                    type |-> IF Is(f.props, "bridge", "yes") THEN "bridge" ELSE "tunnel",
                    tags |-> extractRelevantTags(f.props),
                    endLat |-> Num(last[2]), endLon |-> Num(last[1]),
                    wayId |-> parseWayId(f)]))
  ELSE Ok(acc)

\* faulty variant: the surface rule does not exclude the roundabouts
lineSurface_RoundaboutsToo(f, acc) ==
  IF Truthy(f.props, "surface")
  THEN IF ~f.hasCoords THEN Throw(acc)
       ELSE LET entry == [tok |-> "entry", surface |-> f.props["surface"],
                          coords |-> FlattenRounded(f.coords.line)]
                sep   == IF acc.roadSurfaceCount > 0 THEN <<[tok |-> ","]>> ELSE <<>>
            IN Ok([acc EXCEPT !.rsTemp = acc.rsTemp \o sep \o <<entry>>,
                              !.roadSurfaceCount = acc.roadSurfaceCount + 1])
  ELSE Ok(acc)

lineSurface(f, acc) ==
  IF Truthy(f.props, "surface") /\ ~Is(f.props, "junction", "roundabout")
  THEN IF ~f.hasCoords THEN Throw(acc)
       ELSE LET entry == [tok |-> "entry", surface |-> f.props["surface"],
                          coords |-> FlattenRounded(f.coords.line)]
                sep   == IF acc.roadSurfaceCount > 0 THEN <<[tok |-> ","]>> ELSE <<>>
            IN Ok([acc EXCEPT !.rsTemp = acc.rsTemp \o sep \o <<entry>>,
                              !.roadSurfaceCount = acc.roadSurfaceCount + 1])
  ELSE Ok(acc)

\* faulty variant: the rules are chained by else, a line recorded as a
\* bridge or tunnel is not looked at by the surface rule
handleLineString_ElseIf(f, acc) ==
  IF ~f.hasProps THEN Throw(acc)
  ELSE LET r1 == lineRoundabout(f, acc)
           r2 == IF r1.threw THEN r1 ELSE lineBridgeTunnel(f, r1.acc)
       IN IF r2.threw \/ Len(r2.acc.trafficCalming) > Len(acc.trafficCalming)
          THEN r2 ELSE lineSurface(f, r2.acc)

handleLineString(f, acc) ==
  IF ~f.hasProps THEN Throw(acc)        \* undefined.junction
  ELSE LET r1 == lineRoundabout(f, acc)
           r2 == IF r1.threw THEN r1 ELSE lineBridgeTunnel(f, r1.acc)
       IN IF r2.threw THEN r2 ELSE lineSurface(f, r2.acc)

handlePolygon(f, acc) ==
  IF ~f.hasCoords THEN Throw(acc)       \* undefined[0]
  ELSE IF ~f.hasProps THEN Throw(acc)   \* undefined.junction
  ELSE IF Is(f.props, "junction", "roundabout")
       THEN IF f.coords.rings = <<>> THEN Throw(acc)   \* coordinates[0] is undefined
            ELSE Ok(roundaboutWay(f.coords.rings[1], acc))
       ELSE Ok(acc)

\* one iteration of the loop on one line of the input
processLine(line, acc) ==
  IF line.kind = "blank" THEN Ok(acc)          \* if (!trimmed) continue
  ELSE IF line.kind = "malformed" THEN Ok(acc) \* JSON.parse throws: continue
  ELSE IF line.kind = "scalar" THEN Throw(acc) \* null, 42, "x": no geometry
  ELSE IF ~line.hasGeometry THEN Throw(acc)    \* undefined.type
  ELSE IF line.gtype = "Point" THEN handlePoint(line, acc)
  ELSE IF line.gtype = "LineString" THEN handleLineString(line, acc)
  ELSE IF line.gtype = "Polygon" THEN handlePolygon(line, acc)
  ELSE Ok(acc)

----------------------------------------------------------------------------
(* Input lines.  A line is blank, not JSON ("malformed"), JSON that is not *)
(* an object ("scalar"), or a feature object whose id, properties,         *)
(* geometry and coordinates may each be missing.                           *)

Absent == "<absent>"
\* the tag mapping of a choice of tag values, absent keys left out
Strip(r) == [k \in {j \in DOMAIN r : r[j] # Absent} |-> r[k]]

NoTags == [k \in {} |-> ""]

\* geometry.coordinates: a vertex (Point), a list of vertices (LineString)
\* or a list of rings (Polygon); one field per shape
NoC       == [pt |-> <<0, 0>>, line |-> <<>>, rings |-> <<>>]
PointC(v) == [pt |-> v, line |-> <<>>, rings |-> <<>>]
LineC(c)  == [pt |-> <<0, 0>>, line |-> c, rings |-> <<>>]
PolyC(r)  == [pt |-> <<0, 0>>, line |-> <<>>, rings |-> r]

Line(kind, hasId, id, hasProps, props, hasGeometry, gtype, hasCoords, coords) ==
  [kind |-> kind, hasId |-> hasId, id |-> id, hasProps |-> hasProps,
   props |-> props, hasGeometry |-> hasGeometry, gtype |-> gtype,
   hasCoords |-> hasCoords, coords |-> coords]

Blank     == Line("blank", FALSE, <<>>, FALSE, NoTags, FALSE, "", FALSE, NoC)
Malformed == Line("malformed", FALSE, <<>>, FALSE, NoTags, FALSE, "", FALSE, NoC)
Scalar    == Line("scalar", FALSE, <<>>, FALSE, NoTags, FALSE, "", FALSE, NoC)

Feature(hasId, id, props, gtype, coords) ==
  Line("feature", hasId, id, TRUE, props, TRUE, gtype, TRUE, coords)

\* vertices <<lon, lat>>, in units of 1e-8 degree
VA == <<1204, 5513>>
VB == <<0 - 15, 25>>
VC == <<1296, 5500>>

WayNums == {7, MaxWayNum}
\* the two documented formats of a way's feature id
IdW(n)   == <<"w">> \o Digits(n)
IdWay(n) == <<"w", "a", "y", "/">> \o Digits(n)
FeatureIds ==
  {<<FALSE, <<>>>>, <<TRUE, <<"r", "7">>>>, <<TRUE, <<"w", "\t", "7">>>>}
    \cup {<<TRUE, IdW(n)>> : n \in WayNums}
    \cup {<<TRUE, IdWay(n)>> : n \in WayNums}

PointTags ==
  [traffic_calming : {Absent, "chicane"} \cup TRAFFIC_CALMING_TYPES,
   highway : {Absent, "speed_camera", "mini_roundabout"},
   enforcement : {Absent, "maxspeed"},
   bridge : {Absent, "yes"},
   name : {Absent, "Main"}]

LineTags ==
  [traffic_calming : {Absent, "hump"},
   junction : {Absent, "roundabout"},
   bridge : {Absent, "yes", "no"},
   tunnel : {Absent, "yes"},
   surface : {Absent, "", "asphalt", "cobbles"},
   highway : {Absent, "residential"}]

PolygonTags ==
  [junction : {Absent, "roundabout"}, bridge : {Absent, "yes"},
   surface : {Absent, "asphalt"}]

LineCoords == {<<>>, <<VA>>, <<VA, VB>>, <<VA, VB, VC>>}

InputLines ==
  {Blank, Malformed, Scalar}
    \* features without geometry, without properties, without coordinates
    \cup {Line("feature", FALSE, <<>>, hp, NoTags, FALSE, "", FALSE, NoC) :
            hp \in BOOLEAN}
    \cup {Line("feature", FALSE, <<>>, FALSE, NoTags, TRUE, g, TRUE, NoC) :
            g \in {"Point", "LineString", "Polygon", "MultiPolygon"}}
    \cup {Line("feature", FALSE, <<>>, TRUE, Strip(t), TRUE, "Point", FALSE, NoC) :
            t \in PointTags}
    \cup {Line("feature", FALSE, <<>>, TRUE, Strip(t), TRUE, "LineString", FALSE, NoC) :
            t \in LineTags}
    \cup {Line("feature", FALSE, <<>>, TRUE, Strip(t), TRUE, "Polygon", FALSE, NoC) :
            t \in PolygonTags}
    \* well-formed features
    \cup {Feature(FALSE, <<>>, Strip(t), "Point", PointC(VA)) : t \in PointTags}
    \cup {Feature(i[1], i[2], Strip(t), "LineString", LineC(c)) :
            t \in LineTags, c \in LineCoords, i \in FeatureIds}
    \cup {Feature(FALSE, <<>>, Strip(t), "Polygon", PolyC(c)) :
            t \in PolygonTags, c \in {<<>>, <<(<<VA, VB, VC, VA>>)>>}}
    \cup {Feature(FALSE, <<>>, Strip(t), "MultiPolygon", NoC) : t \in PolygonTags}

----------------------------------------------------------------------------
(* Each specification leaves the variables of the other two idle *)

IdleClassify ==
  cpc = "idle" /\ cIn = Blank /\ cOut = Ok(EmptyAcc)

IdleExtract ==
  /\ epc = "idle" /\ efs = <<>> /\ eleft = 0 /\ eacc = EmptyAcc
  /\ ebundle = <<>> /\ ecause = "none" /\ eclock = 0 /\ eversion = 0

IdleBuild ==
  /\ bpc = "idle" /\ bfs = {} /\ bin = <<>> /\ bdb = <<>> /\ bloc = <<>>
  /\ bgz = <<>> /\ bcause = "none"

IdleLegacy ==
  lpc = "idle" /\ lclock = 0 /\ lleft = 0 /\ lout = <<>>

IdlePure ==
  fpc = "idle" /\ fIn = <<>> /\ fOut = <<>>

----------------------------------------------------------------------------
(* SpecClassify: one line through the loop body of parseAndStreamFeatures, *)
(* starting from empty accumulators                                        *)

InitClassify ==
  /\ cpc = "ready" /\ cIn \in InputLines /\ cOut = Ok(EmptyAcc)
  /\ IdleExtract /\ IdleBuild /\ IdleLegacy /\ IdlePure

Classify ==
  /\ cpc = "ready"
  /\ cOut' = processLine(cIn, EmptyAcc)
  /\ cpc' = "done"
  /\ UNCHANGED <<cIn, extractVars, buildVars, legacyVars, pureVars>>

NextClassify == Classify

SpecClassify == InitClassify /\ [][NextClassify]_vars

\* the classified line is a well-formed feature of the given geometry type
Classified(gtype) ==
  /\ cpc = "done" /\ cIn.kind = "feature"
  /\ cIn.hasGeometry /\ cIn.gtype = gtype /\ cIn.hasCoords /\ cIn.hasProps

TCOut == cOut.acc.trafficCalming

----------------------------------------------------------------------------
(* C4 *)

\* the per-record errors the claim names
PerRecordError(line) ==
  \/ line.kind \in {"blank", "malformed"}
  \/ /\ line.kind = "feature"
     /\ \/ ~line.hasGeometry
        \/ ~line.hasProps
        \/ /\ line.gtype = "LineString" /\ line.hasCoords /\ line.coords.line = <<>>
           /\ Is(line.props, "bridge", "yes")

\* C4: a line that is blank, is not valid JSON, or is a feature lacking its
\* geometry, its properties or the vertices a bridge record needs, makes the
\* loop body emit no record and does not throw (the loop goes on).
C4_PerRecordErrorDropped ==
  (cpc = "done" /\ PerRecordError(cIn)) =>
     (~cOut.threw /\ cOut.acc = EmptyAcc)

----------------------------------------------------------------------------
(* C9 *)

\* the synonym table of the specification
SynonymCategory(v) == IF v \in {"dip", "double_dip"} THEN "dip" ELSE "speed_bump"

IsCamera(props) ==
  Is(props, "highway", "speed_camera") \/ Is(props, "enforcement", "maxspeed")

\* C9 as stated: a Point whose traffic_calming value is recognized produces
\* exactly one TrafficCalmingRecord, of the synonym-table category.
C9_ExactlyOneRecord ==
  (Classified("Point") /\ Truthy(cIn.props, "traffic_calming")
     /\ cIn.props["traffic_calming"] \in TRAFFIC_CALMING_TYPES) =>
        (Len(TCOut) = 1
           /\ TCOut[1].type = SynonymCategory(cIn.props["traffic_calming"]))

\* C9 amended: a Point whose traffic_calming value is recognized produces
\* exactly one TrafficCalmingRecord from that tag, of the synonym-table
\* category, emitted first; the only other TrafficCalmingRecord a Point can
\* produce is the speed_camera record of a Point that is also tagged
\* highway=speed_camera or enforcement=maxspeed.  A Point whose
\* traffic_calming value is outside the set produces no record from that tag.
C9_OneRecordFromTag ==
  Classified("Point") =>
    LET p    == cIn.props
        rec  == Truthy(p, "traffic_calming")
                  /\ p["traffic_calming"] \in TRAFFIC_CALMING_TYPES
        fromTag == {i \in 1..Len(TCOut) : TCOut[i].type # "speed_camera"}
    IN /\ ~cOut.threw
       /\ Len(TCOut) = (IF rec THEN 1 ELSE 0) + (IF IsCamera(p) THEN 1 ELSE 0)
       /\ rec => (fromTag = {1}
                    /\ TCOut[1].type = SynonymCategory(p["traffic_calming"]))
       /\ ~rec => fromTag = {}

\* a recognized value and a speed camera tag on the same Point: two records
C9_Witness ==
  /\ Classified("Point")
  /\ Is(cIn.props, "traffic_calming", "table")
  /\ Is(cIn.props, "highway", "speed_camera")
  /\ Len(TCOut) = 2 /\ TCOut[1].type = "speed_bump"

----------------------------------------------------------------------------
(* C10 *)

\* C10: a bridge or tunnel LineString whose id is "w<N>" or "way/<N>" emits
\* a record with wayId = N; without an id the wayId is absent.
C10_WayIdParsed ==
  (Classified("LineString") /\ cIn.coords.line # <<>>
     /\ (Is(cIn.props, "bridge", "yes") \/ Is(cIn.props, "tunnel", "yes"))) =>
       LET rec == TCOut[Len(TCOut)]
       IN /\ Len(TCOut) >= 1
          /\ \A n \in WayNums :
               (cIn.hasId /\ cIn.id \in {IdW(n), IdWay(n)}) => rec.wayId = Num(n)
          /\ ~cIn.hasId => rec.wayId = Undefined

----------------------------------------------------------------------------
(* SpecExtract: one run of extractRegion (scripts/extract-single.ts).      *)
(* A file is "absent", "old" (left by an earlier run), "partial" (created  *)
(* by this run, not completely written) or "complete" (written by this     *)
(* run); ebundle.scratch is the content of the scratch file once its write *)
(* stream has ended.  The run ends in "done" (normal return), "exit1"      *)
(* (process.exit(1) of the catch block or of the region lookup) or         *)
(* "crashed" (an 'error' event of a stream that has no listener yet:       *)
(* uncaught exception, the catch block does not run).                      *)

localPbf    == "/tmp/<id>.osm.pbf"
filteredPbf == "/tmp/<id>-filtered.osm.pbf"
outputJson  == "output/<id>.json"
rsTempPath  == "/tmp/<id>-roadsurfaces.ndjson"
outputGz    == "output/<id>.json.gz"
surfaceGz   == "output/<id>-surfaces.json.gz"

ExtractPaths ==
  {localPbf, filteredPbf, outputJson, rsTempPath, outputGz, surfaceGz}

\* the files the catch block tries to remove
catchCleanup == {localPbf, filteredPbf, outputJson, rsTempPath}

\* the files removed at the end of the try block, in the order of their
\* unlinkSync calls
finalCleanup == <<localPbf, filteredPbf, outputJson, rsTempPath>>

existsSync(fs, path) == fs[path] # "absent"

\* the loop of the catch block: each file of the list that exists is
\* unlinked; on a file of stuck unlinkSync throws (EPERM, EBUSY), the error
\* is ignored and the file stays
catchLoop(fs, stuck) ==
  [p \in DOMAIN fs |-> IF p \in catchCleanup \ stuck THEN "absent" ELSE fs[p]]

RECURSIVE finalUnlinks(_, _, _)
\* the unlinkSync calls that end the try block, in order, up to the first
\* that throws: on a file of stuck, or on a missing file (only the unlink
\* of the scratch file is guarded by existsSync)
finalUnlinks(fs, files, stuck) ==
  IF files = <<>> THEN [threw |-> FALSE, fs |-> fs]
  ELSE LET file == Head(files)
       IN IF file = rsTempPath /\ ~existsSync(fs, file)
          THEN finalUnlinks(fs, Tail(files), stuck)
          ELSE IF file \in stuck \/ ~existsSync(fs, file)
          THEN [threw |-> TRUE, fs |-> fs]
          ELSE finalUnlinks([fs EXCEPT ![file] = "absent"], Tail(files), stuck)

\* the lines the intermediate GeoJSON sequence is made of
StreamLines ==
  {Blank, Malformed,
   Line("feature", FALSE, <<>>, TRUE, NoTags, FALSE, "", FALSE, NoC),
   Feature(FALSE, <<>>, Strip([traffic_calming |-> "hump"]), "Point", PointC(VA)),
   Feature(TRUE, IdW(7), Strip([bridge |-> "yes"]), "LineString", LineC(<<VA, VB>>)),
   Feature(FALSE, <<>>, Strip([surface |-> "asphalt"]), "LineString", LineC(<<VA, VB>>)),
   Feature(FALSE, <<>>, Strip([surface |-> "cobbles", highway |-> "residential"]),
           "LineString", LineC(<<VB, VC>>)),
   Feature(FALSE, <<>>, Strip([junction |-> "roundabout", surface |-> "asphalt"]),
           "LineString", LineC(<<VA, VB, VC>>)),
   Feature(FALSE, <<>>, Strip([junction |-> "roundabout"]), "LineString",
           LineC(<<VA, VB>>))}

InitExtract ==
  /\ epc = "start"
  /\ efs \in {f \in [ExtractPaths -> {"absent", "old"}] :
                \A p \in ExtractPaths \ {outputGz, surfaceGz} : f[p] = "absent"}
  /\ eleft = MaxLines
  /\ eacc = EmptyAcc
  /\ ebundle = [core |-> <<>>, surface |-> <<>>, scratch |-> <<>>]
  /\ ecause = "none"
  /\ eclock = 1
  /\ eversion = 0
  /\ IdleClassify /\ IdleBuild /\ IdleLegacy /\ IdlePure

\* the wall clock passes midnight
Tick ==
  /\ epc \notin {"done", "exit1", "crashed"}
  /\ eclock < MaxDay
  /\ eclock' = eclock + 1
  /\ UNCHANGED <<epc, efs, eleft, eacc, ebundle, ecause, eversion,
                 classifyVars, legacyVars, pureVars, buildVars>>

\* regionsData.regions.find fails: process.exit(1) before the try block
RegionNotFound ==
  /\ epc = "start"
  /\ epc' = "exit1" /\ ecause' = "unknownRegion"
  /\ UNCHANGED <<efs, eleft, eacc, ebundle, eclock, eversion,
                 classifyVars, legacyVars, pureVars, buildVars>>

\* an execSync step that writes its output file and goes on
ToolStep(from, out, to) ==
  /\ epc = from
  /\ efs' = [efs EXCEPT ![out] = "complete"]
  /\ epc' = to
  /\ UNCHANGED <<eleft, eacc, ebundle, ecause, eclock, eversion,
                 classifyVars, legacyVars, pureVars, buildVars>>

\* an execSync step that throws, having written nothing or part of its output
ToolStepFails(from, out) ==
  /\ epc = from
  /\ \E st \in {efs[out], "partial"} : efs' = [efs EXCEPT ![out] = st]
  /\ epc' = "catch" /\ ecause' = from
  /\ UNCHANGED <<eleft, eacc, ebundle, eclock, eversion, classifyVars, legacyVars, pureVars, buildVars>>

Download      == ToolStep("start", localPbf, "filter")
DownloadFails == ToolStepFails("start", localPbf)
Filter        == ToolStep("filter", filteredPbf, "export")
FilterFails   == ToolStepFails("filter", filteredPbf)
Export        == ToolStep("export", outputJson, "openScratch")
ExportFails   == ToolStepFails("export", outputJson)

\* parseAndStreamFeatures: createWriteStream(rsTempPath)
OpenScratch ==
  /\ epc = "openScratch"
  /\ efs' = [efs EXCEPT ![rsTempPath] = "partial"]
  /\ eacc' = EmptyAcc
  /\ epc' = "parse"
  /\ UNCHANGED <<eleft, ebundle, ecause, eclock, eversion, classifyVars, legacyVars, pureVars, buildVars>>

\* one iteration of the for-await loop; a TypeError rejects the promise
ParseLine ==
  /\ epc = "parse" /\ eleft > 0
  /\ \E line \in StreamLines :
       LET r == processLine(line, eacc)
       IN /\ eacc' = r.acc
          /\ epc' = IF r.threw THEN "catch" ELSE "parse"
          /\ ecause' = IF r.threw THEN "record" ELSE ecause
  /\ eleft' = eleft - 1
  /\ UNCHANGED <<efs, ebundle, eclock, eversion, classifyVars, legacyVars, pureVars, buildVars>>

\* rsStream fails while the loop runs, on the open of the scratch file (it
\* is never created) or on a write: the stream emits 'error' before the
\* listener of line 373 is attached
SinkWriteFails ==
  /\ epc = "parse"
  /\ \E st \in {"absent", "partial"} : efs' = [efs EXCEPT ![rsTempPath] = st]
  /\ epc' = "crashed" /\ ecause' = "sink"
  /\ UNCHANGED <<eleft, eacc, ebundle, eclock, eversion, classifyVars, legacyVars, pureVars, buildVars>>

\* end of input: rsStream.end(), awaited; the file holds what was written
ParseEnd ==
  /\ epc = "parse"
  /\ efs' = [efs EXCEPT ![rsTempPath] = "complete"]
  /\ ebundle' = [ebundle EXCEPT !.scratch = eacc.rsTemp]
  /\ epc' = "composeCore"
  /\ UNCHANGED <<eleft, eacc, ecause, eclock, eversion, classifyVars, legacyVars, pureVars, buildVars>>

\* the first k tokens of the writes, then the beginning of the next entry
\* when the file ends in the middle of one
flushedPart(toks, k, cut) ==
  SubSeq(toks, 1, k) \o (IF cut THEN <<[tok |-> "cut"]>> ELSE <<>>)

\* rsStream.end() meets an error: the callback of line 372 is called with
\* the error, ignores it and resolves the promise (the later reject has no
\* effect); the function returns as after a flush, the file holds only the
\* part of the writes that reached it
ParseEndFails ==
  /\ epc = "parse"
  /\ \E k \in 0..Len(eacc.rsTemp), cut \in BOOLEAN :
       /\ cut => (k < Len(eacc.rsTemp) /\ eacc.rsTemp[k + 1].tok = "entry")
       /\ ebundle' = [ebundle EXCEPT !.scratch = flushedPart(eacc.rsTemp, k, cut)]
  /\ epc' = "composeCore"
  /\ UNCHANGED <<efs, eleft, eacc, ecause, eclock, eversion, classifyVars, legacyVars, pureVars, buildVars>>

\* JSON.stringify leaves out a property whose value is undefined and writes
\* NaN as null
Omitted == [t |-> "omitted"]
Null    == [t |-> "null"]
jsonValue(x) == IF x = Undefined THEN Omitted ELSE IF x = NaN THEN Null ELSE x

stringifyTC(r) ==
  [lat |-> Num(r.lat), lon |-> Num(r.lon), type |-> r.type,
   tags |-> jsonValue(r.tags), endLat |-> jsonValue(r.endLat),
   endLon |-> jsonValue(r.endLon), wayId |-> jsonValue(r.wayId)]

stringifyRA(r) ==
  [k \in DOMAIN r |-> IF k = "type" THEN r[k] ELSE jsonValue(r[k])]

\* composeCoreFile: the document written to <region>.json.gz
coreDocument(version, acc) ==
  [version |-> version, region |-> "<id>",
   trafficCalming |-> [i \in 1..Len(acc.trafficCalming) |->
                          stringifyTC(acc.trafficCalming[i])],
   roundabouts |-> [i \in 1..Len(acc.roundabouts) |->
                          stringifyRA(acc.roundabouts[i])]]

\* step 5: the version is computed, then composeCoreFile writes the bundle
ComposeCore ==
  /\ epc = "composeCore"
  /\ eversion' = eclock
  /\ ebundle' = [ebundle EXCEPT !.core = <<coreDocument(eclock, eacc)>>]
  /\ efs' = [efs EXCEPT ![outputGz] = "complete"]
  /\ epc' = "composeSurface"
  /\ UNCHANGED <<eleft, eacc, ecause, eclock, classifyVars, legacyVars, pureVars, buildVars>>

\* writeFileSync throws, before or after it truncated the file
ComposeCoreFails ==
  /\ epc = "composeCore"
  /\ eversion' = eclock
  /\ \E st \in {efs[outputGz], "partial"} : efs' = [efs EXCEPT ![outputGz] = st]
  /\ epc' = "catch" /\ ecause' = "core"
  /\ UNCHANGED <<eleft, eacc, ebundle, eclock, classifyVars, legacyVars, pureVars, buildVars>>

\* composeSurfaceFile: the output stream is made and the header written to
\* gzip (ebundle.surface is what has been written for the bundle); the open
\* of the output file creates or truncates it, or fails and leaves the path
\* as it was, absent or with the bundle of an earlier run
SurfaceOpen ==
  /\ epc = "composeSurface"
  /\ \E st \in {"partial", efs[surfaceGz]} : efs' = [efs EXCEPT ![surfaceGz] = st]
  /\ ebundle' = [ebundle EXCEPT !.surface =
                   <<[tok |-> "{", version |-> eversion, region |-> "<id>"]>>]
  /\ epc' = "surfaceCopy"
  /\ UNCHANGED <<eleft, eacc, ecause, eclock, eversion, classifyVars, legacyVars, pureVars, buildVars>>

\* faulty variant: the closing tokens are written only with the entries
surfaceTail_CloseWithEntries(scratchExists, rsTemp) ==
  IF scratchExists /\ Len(rsTemp) > 0 THEN rsTemp \o <<[tok |-> "]}"]>> ELSE <<>>

\* what composeSurfaceFile writes after the header: the content of the
\* scratch file when it exists and its size is not 0, then ']}'
surfaceTail(scratchExists, rsTemp) ==
  (IF scratchExists /\ Len(rsTemp) > 0 THEN rsTemp ELSE <<>>) \o <<[tok |-> "]}"]>>

\* one turn of the copy loop: the next chunk of the scratch file, which
\* exists and is not empty, is written to gzip; the loop returns to the
\* event loop for every chunk
SurfaceCopy ==
  /\ epc = "surfaceCopy"
  /\ LET tail == surfaceTail(existsSync(efs, rsTempPath), ebundle.scratch)
         done == Len(ebundle.surface) - 1   \* written after the header
     IN \E k \in 1..(Len(tail) - 1 - done) :
          ebundle' = [ebundle EXCEPT !.surface =
                        @ \o SubSeq(tail, done + 1, done + k)]
  /\ UNCHANGED <<epc, efs, eleft, eacc, ecause, eclock, eversion, classifyVars, legacyVars, pureVars, buildVars>>

\* the copy loop is over, or was not entered: the closing tokens are written
SurfaceClose ==
  /\ epc = "surfaceCopy"
  /\ LET tail == surfaceTail(existsSync(efs, rsTempPath), ebundle.scratch)
         done == Len(ebundle.surface) - 1   \* written after the header
     IN /\ done + 1 >= Len(tail)
        /\ ebundle' = [ebundle EXCEPT !.surface =
                         @ \o SubSeq(tail, done + 1, Len(tail))]
  /\ epc' = "surfaceEnd"
  /\ UNCHANGED <<efs, eleft, eacc, ecause, eclock, eversion, classifyVars, legacyVars, pureVars, buildVars>>

\* the part of what was written for the bundle that the file of this run
\* may hold after a failure: nothing when the open failed, otherwise any
\* prefix, the last entry possibly cut
leftInBundle(fs, surface) ==
  LET reach == IF fs[surfaceGz] = "partial" THEN 0..Len(surface) ELSE {0}
  IN {flushedPart(surface, k, FALSE) : k \in reach}
       \cup {flushedPart(surface, k, TRUE) :
               k \in {j \in reach : j < Len(surface) /\ surface[j + 1].tok = "entry"}}

\* the output file fails (its open, or a write) while the copy loop waits
\* for a chunk: 'error' is emitted before the listener of line 425 is
\* attached and the process ends.  Without a copy loop the function reaches
\* line 425 without returning to the event loop
SurfaceCopyFails ==
  /\ epc = "surfaceCopy"
  /\ Len(surfaceTail(existsSync(efs, rsTempPath), ebundle.scratch)) > 1
  /\ \E left \in leftInBundle(efs, ebundle.surface) :
       ebundle' = [ebundle EXCEPT !.surface = left]
  /\ epc' = "crashed" /\ ecause' = "surface"
  /\ UNCHANGED <<efs, eleft, eacc, eclock, eversion, classifyVars, legacyVars, pureVars, buildVars>>

\* gzipStream.end(): the output file, which was opened, emits 'finish'
SurfaceFinish ==
  /\ epc = "surfaceEnd" /\ efs[surfaceGz] = "partial"
  /\ efs' = [efs EXCEPT ![surfaceGz] = "complete"]
  /\ epc' = "cleanup"
  /\ UNCHANGED <<eleft, eacc, ebundle, ecause, eclock, eversion, classifyVars, legacyVars, pureVars, buildVars>>

\* the output file emits 'error' (its failed open, or a failed write) once
\* the listener of line 425 is attached: the promise rejects
SurfaceFinishFails ==
  /\ epc = "surfaceEnd"
  /\ \E left \in leftInBundle(efs, ebundle.surface) :
       ebundle' = [ebundle EXCEPT !.surface = left]
  /\ epc' = "catch" /\ ecause' = "surface"
  /\ UNCHANGED <<efs, eleft, eacc, eclock, eversion, classifyVars, legacyVars, pureVars, buildVars>>

\* end of the try block: the intermediate files are removed
Cleanup ==
  /\ epc = "cleanup"
  /\ LET r == finalUnlinks(efs, finalCleanup, {})
     IN ~r.threw /\ efs' = r.fs
  /\ epc' = "done"
  /\ UNCHANGED <<eleft, eacc, ebundle, ecause, eclock, eversion, classifyVars, legacyVars, pureVars, buildVars>>

\* end of the try block: an unlinkSync throws, the files before it are
\* removed and the catch block runs although both bundles are written
CleanupFails ==
  /\ epc = "cleanup"
  /\ \E stuck \in SUBSET catchCleanup :
       LET r == finalUnlinks(efs, finalCleanup, stuck)
       IN r.threw /\ efs' = r.fs
  /\ epc' = "catch" /\ ecause' = "cleanup"
  /\ UNCHANGED <<eleft, eacc, ebundle, eclock, eversion, classifyVars, legacyVars, pureVars, buildVars>>

\* the catch block: the partial files are removed, those that can be, then
\* process.exit(1)
Catch ==
  /\ epc = "catch"
  /\ \E stuck \in SUBSET catchCleanup : efs' = catchLoop(efs, stuck)
  /\ epc' = "exit1"
  /\ UNCHANGED <<eleft, eacc, ebundle, ecause, eclock, eversion, classifyVars, legacyVars, pureVars, buildVars>>

NextExtract ==
  \/ Tick \/ RegionNotFound
  \/ Download \/ DownloadFails \/ Filter \/ FilterFails \/ Export \/ ExportFails
  \/ OpenScratch \/ ParseLine \/ SinkWriteFails \/ ParseEnd \/ ParseEndFails
  \/ ComposeCore \/ ComposeCoreFails
  \/ SurfaceOpen \/ SurfaceCopy \/ SurfaceClose \/ SurfaceCopyFails \/ SurfaceFinish
  \/ SurfaceFinishFails \/ Cleanup \/ CleanupFails \/ Catch

SpecExtract == InitExtract /\ [][NextExtract]_vars

ExtractEnded == epc \in {"done", "exit1", "crashed"}
\* the files this run wrote
WrittenByRun == {p \in ExtractPaths : efs[p] \in {"partial", "complete"}}

----------------------------------------------------------------------------
(* C2 *)

\* C2: when extractRegion has left its try block through the catch block and
\* exited, no file this run created is left: neither
\* the scratch file, the intermediate GeoJSON, the PBFs, nor a bundle
\* (<region>.json.gz, <region>-surfaces.json.gz) written in this run.
C2_AbortRemovesEverything ==
  (epc = "exit1") => WrittenByRun = {}

----------------------------------------------------------------------------
(* C3 *)

\* C3: the scratch spill file does not exist when extractRegion has ended,
\* whichever way it ended.
C3_ScratchRemoved ==
  ExtractEnded => ~existsSync(efs, rsTempPath)

----------------------------------------------------------------------------
(* The relational loader (scripts/build-sqlite.ts) *)

corePath     == "output/<id>.json.gz"
surfacePath  == "output/<id>-surfaces.json.gz"
wayPath      == "output/<id>-ways.json.gz"
sqlitePath   == "output/<id>.sqlite"
sqliteGzPath == "output/<id>.sqlite.gz"

BuildPaths == {corePath, surfacePath, wayPath, sqlitePath, sqliteGzPath}

PosInfinity == [t |-> "Infinity"]
NegInfinity == [t |-> "-Infinity"]
\* JSON.stringify(x) stored in a TEXT column
Text(x) == [t |-> "text", v |-> x]

SeqMin(S) == CHOOSE x \in S : \A y \in S : x <= y
SeqMax(S) == CHOOSE x \in S : \A y \in S : x >= y

\* faulty variant: the axes swapped, lat = coords[i], lon = coords[i+1]
computeBboxFromFlatCoords_AxesSwapped(coords) ==
  LET pairs == 1..(Len(coords) \div 2)
      lats  == {coords[2 * k - 1] : k \in pairs}
      lons  == {coords[2 * k] : k \in pairs}
  IN [minLat |-> IF pairs = {} THEN PosInfinity ELSE Num(SeqMin(lats)),
      maxLat |-> IF pairs = {} THEN NegInfinity ELSE Num(SeqMax(lats)),
      minLon |-> IF pairs = {} THEN PosInfinity ELSE Num(SeqMin(lons)),
      maxLon |-> IF pairs = {} THEN NegInfinity ELSE Num(SeqMax(lons))]
\* for (i = 0; i < coords.length - 1; i += 2): lon = coords[i], lat = coords[i+1]
computeBboxFromFlatCoords(coords) ==
  LET pairs == 1..(Len(coords) \div 2)
      lats  == {coords[2 * k] : k \in pairs}
      lons  == {coords[2 * k - 1] : k \in pairs}
  IN [minLat |-> IF pairs = {} THEN PosInfinity ELSE Num(SeqMin(lats)),
      maxLat |-> IF pairs = {} THEN NegInfinity ELSE Num(SeqMax(lats)),
      minLon |-> IF pairs = {} THEN PosInfinity ELSE Num(SeqMin(lons)),
      maxLon |-> IF pairs = {} THEN NegInfinity ELSE Num(SeqMax(lons))]

\* x ?? null
orNull(x) == IF x \in {Omitted, Null} THEN Null ELSE x

tcRow(tc) ==
  [lat |-> tc.lat, lon |-> tc.lon, type |-> tc.type,
   end_lat |-> orNull(tc.endLat), end_lon |-> orNull(tc.endLon),
   way_id |-> orNull(tc.wayId),
   tags |-> IF tc.tags \in {Omitted, Null} THEN Null ELSE Text(tc.tags.v)]

raRow(ra) ==
  [lat |-> ra.lat, lon |-> ra.lon, radius |-> orNull(ra.radius), type |-> ra.type]

surfaceRow(rs) ==
  LET b == computeBboxFromFlatCoords(rs.coords)
  IN [surface |-> rs.surface, coords |-> Text(rs.coords),
      min_lat |-> b.minLat, max_lat |-> b.maxLat,
      min_lon |-> b.minLon, max_lon |-> b.maxLon]

wayRow(rw) ==
  LET b == computeBboxFromFlatCoords(rw.coords)
  IN [highway |-> rw.highway, coords |-> Text(rw.coords),
      min_lat |-> b.minLat, max_lat |-> b.maxLat,
      min_lon |-> b.minLon, max_lon |-> b.maxLon]

\* faulty variant: the flag is written as 'true' whatever its value
flagText_AlwaysTrue(b) == "true"

\* hasSurfaceData ? 'true' : 'false'
flagText(b) == IF b THEN "true" ELSE "false"

Tables == {"traffic_calming", "roundabouts", "road_surfaces", "road_ways", "metadata"}
\* SCHEMA_SQL on a new file: the five tables, without rows
EmptyTables == [t \in Tables |-> <<>>]

\* the database connection and file.  disk holds the committed rows, txn the
\* rows as the connection sees them; begins, commits and autoInserts count
\* the BEGINs, the COMMITs and the inserts made outside a transaction.
NoDatabase(disk) ==
  [open |-> FALSE, inTxn |-> FALSE, disk |-> disk, txn |-> disk,
   begins |-> 0, commits |-> 0, inserts |-> 0, autoInserts |-> 0,
   createdByRun |-> FALSE]

\* new Database(sqlitePath), pragmas, db.exec(SCHEMA_SQL): an existing file
\* keeps its rows (CREATE TABLE IF NOT EXISTS)
openDatabase(db, fileExists) ==
  LET rows == IF fileExists THEN db.disk ELSE EmptyTables
  IN [db EXCEPT !.open = TRUE, !.disk = rows, !.txn = rows, !.createdByRun = TRUE]

\* faulty variant: the transaction is never opened, every insert commits at once
beginTransaction_Omitted(db) == db

\* db.exec('BEGIN TRANSACTION')
beginTransaction(db) ==
  [db EXCEPT !.inTxn = TRUE, !.begins = @ + 1]

\* the NOT NULL columns of SCHEMA_SQL whose values are numbers or JSON text
\* (type, surface and highway are strings in every record of the model)
NotNullColumns ==
  [traffic_calming |-> {"lat", "lon", "type"},
   roundabouts     |-> {"lat", "lon", "type"},
   road_surfaces   |-> {"surface", "coords", "min_lat", "max_lat", "min_lon",
                        "max_lon"},
   road_ways       |-> {"highway", "coords", "min_lat", "max_lat", "min_lon",
                        "max_lon"},
   metadata        |-> {"value"}]

\* null, or no value at all, where a bundle record is expected to hold a
\* string
NoText == "<null>"

\* the columns bound to a string of the bundle
TextColumns == {"type", "surface", "highway", "value"}

\* the value bound to the column is NULL: null, or the undefined of a
\* property the record does not have
boundNull(c, v) == IF c \in TextColumns THEN v = NoText ELSE v \in {Null, Omitted}

\* statement.run(...) throws: NULL bound to a NOT NULL column (a metadata
\* row is the pair of its key and its value)
violatesNotNull(table, row) ==
  IF table = "metadata" THEN boundNull("value", row[2])
  ELSE \E c \in NotNullColumns[table] : boundNull(c, row[c])

\* statement.run(...) throws: metadata.key is the PRIMARY KEY of its table
\* and the key of the row is already there
violatesPrimaryKey(db, table, row) ==
  /\ table = "metadata"
  /\ \E i \in 1..Len(db.txn[table]) : db.txn[table][i][1] = row[1]

\* faulty variant: the row is placed before the rows already inserted
insertRow_Front(db, table, row) ==
  IF db.inTxn
  THEN [db EXCEPT !.txn[table] = <<row>> \o @, !.inserts = @ + 1]
  ELSE [db EXCEPT !.txn[table] = <<row>> \o @, !.disk[table] = <<row>> \o @,
                  !.inserts = @ + 1, !.autoInserts = @ + 1]

\* statement.run(...): inside a transaction the row is pending, outside it
\* is committed at once
insertRow(db, table, row) ==
  IF violatesPrimaryKey(db, table, row) THEN db   \* run() throws, no row
  ELSE IF db.inTxn
  THEN [db EXCEPT !.txn[table] = Append(@, row), !.inserts = @ + 1]
  ELSE [db EXCEPT !.txn[table] = Append(@, row), !.disk[table] = Append(@, row),
                  !.inserts = @ + 1, !.autoInserts = @ + 1]

\* db.exec('COMMIT'); db.close()
commitAndClose(db) ==
  [db EXCEPT !.disk = db.txn, !.inTxn = FALSE, !.open = FALSE, !.commits = @ + 1]

\* the process exits with the connection open: the pending rows are lost
abandon(db) ==
  [db EXCEPT !.txn = db.disk, !.inTxn = FALSE, !.open = FALSE]

----------------------------------------------------------------------------
(* SpecBuild: one run of buildSqlite, called by the CLI entry point *)

\* records as they stand in the bundles
TCSamples ==
  <<[lat |-> Num(5513), lon |-> Num(1204), type |-> "speed_bump",
     tags |-> Omitted, endLat |-> Omitted, endLon |-> Omitted, wayId |-> Omitted],
    [lat |-> Num(5513), lon |-> Num(1204), type |-> "bridge",
     tags |-> Obj([name |-> "Main"]), endLat |-> Num(25), endLon |-> Num(0 - 15),
     wayId |-> Num(7)],
    [lat |-> Num(25), lon |-> Num(0 - 15), type |-> "tunnel",
     tags |-> Omitted, endLat |-> Num(5500), endLon |-> Num(1296), wayId |-> Null]>>

RASamples ==
  <<[lat |-> Num(5513), lon |-> Num(1204), type |-> "mini_roundabout", radius |-> Num(3)],
    [lat |-> Num(1), lon |-> Num(2), type |-> NoText, radius |-> Num(4)],
    [lat |-> Omitted, lon |-> Num(2), type |-> "roundabout", radius |-> Num(1)],
    [lat |-> Null, lon |-> Null, type |-> "roundabout", radius |-> Num(0)],
    [lat |-> Num(3679), lon |-> Num(828), type |-> "roundabout", radius |-> Omitted]>>

RSSamples ==
  <<[surface |-> "asphalt", coords |-> <<1200, 5510, 0 - 20, 30>>],
    [surface |-> "cobbles", coords |-> <<0 - 20, 30, 1300, 5500, 10, 10>>]>>

RWSamples ==
  <<[highway |-> "residential", coords |-> <<1204, 5513, 0 - 15, 25>>],
    [highway |-> "service", coords |-> <<0 - 15, 25, 1296, 5500, 1204, 5513>>]>>

\* an array of n records
Items(samples, n) == [i \in 1..n |-> samples[((i - 1) % Len(samples)) + 1]]

\* an array of n records that starts at the given sample
ItemsFrom(samples, n, first) ==
  [i \in 1..n |-> samples[((first + i - 2) % Len(samples)) + 1]]

\* rows of a database left by an earlier build
OldTables == [EmptyTables EXCEPT !["metadata"] = <<(<<"region", "<old>">>)>>]

InitBuild ==
  /\ bpc = "Init"
  /\ bfs \in SUBSET BuildPaths
  /\ \E n1, n2, n3, n4 \in 0..MaxItems, r0 \in 1..Len(RASamples) :
       /\ (corePath \notin bfs) => (n1 = 0 /\ n2 = 0 /\ n3 = 0 /\ n4 = 0)
       /\ (surfacePath \notin bfs) => n3 = 0
       /\ (wayPath \notin bfs) => n4 = 0
       /\ bin = [core |-> [version |-> "2026-10-30", region |-> "<id>",
                           trafficCalming |-> Items(TCSamples, n1),
                           roundabouts |-> ItemsFrom(RASamples, n2, r0)],
                 surfaces |-> Items(RSSamples, n3),
                 ways |-> Items(RWSamples, n4)]
  /\ bdb = NoDatabase(IF sqlitePath \in bfs THEN OldTables ELSE EmptyTables)
  /\ bloc = [version |-> "", region |-> "", i |-> 0, tcCount |-> 0, raCount |-> 0,
             surfaceCount |-> 0, wayCount |-> 0,
             hasSurfaceData |-> FALSE, hasWayData |-> FALSE]
  /\ bgz = IF sqliteGzPath \in bfs THEN [st |-> "old", tables |-> OldTables]
           ELSE [st |-> "absent", tables |-> EmptyTables]
  /\ bcause = "none"
  /\ IdleClassify /\ IdleExtract /\ IdleLegacy /\ IdlePure

\* faulty variant: the existence check of the core bundle is missing
coreMissing_Unchecked(fs) == FALSE

\* if (!existsSync(corePath)) throw
coreMissing(fs) == corePath \notin fs

\* the rejection reaches the catch of the CLI entry point: process.exit(1)
failBuild(cause) ==
  /\ bpc' = "Failed" /\ bcause' = cause
  /\ bdb' = abandon(bdb)

\* faulty variant: the earlier outputs are removed before the check
CheckCore_CleanFirst ==
  /\ bpc = "Init"
  /\ bfs' = bfs \ {sqlitePath, sqliteGzPath}
  /\ bgz' = [st |-> "absent", tables |-> EmptyTables]
  /\ IF coreMissing(bfs)
     THEN failBuild("MissingRequiredInput")
     ELSE bpc' = "clean" /\ UNCHANGED <<bdb, bcause>>
  /\ UNCHANGED <<bin, bloc, classifyVars, legacyVars, pureVars, extractVars>>

CheckCore ==
  /\ bpc = "Init"
  /\ IF coreMissing(bfs)
     THEN failBuild("MissingRequiredInput")
     ELSE bpc' = "clean" /\ UNCHANGED <<bdb, bcause>>
  /\ UNCHANGED <<bfs, bin, bloc, bgz, classifyVars, legacyVars, pureVars, extractVars>>

\* if (existsSync(sqlitePath)) unlinkSync(sqlitePath): the database of an
\* earlier build is removed
CleanPrevious ==
  /\ bpc = "clean"
  /\ bfs' = bfs \ {sqlitePath}
  /\ bdb' = NoDatabase(EmptyTables)
  /\ bpc' = "cleanGz"
  /\ UNCHANGED <<bin, bloc, bgz, bcause, classifyVars, legacyVars, pureVars, extractVars>>

\* if (existsSync(sqliteGzPath)) unlinkSync(sqliteGzPath): then its
\* compressed copy
CleanPreviousGz ==
  /\ bpc = "cleanGz"
  /\ bfs' = bfs \ {sqliteGzPath}
  /\ bgz' = [st |-> "absent", tables |-> EmptyTables]
  /\ bpc' = "open"
  /\ UNCHANGED <<bin, bdb, bloc, bcause, classifyVars, legacyVars, pureVars, extractVars>>

OpenDb ==
  /\ bpc = "open"
  /\ bdb' = openDatabase(bdb, sqlitePath \in bfs)
  /\ bfs' = bfs \cup {sqlitePath}
  /\ bpc' = "SchemaReady"
  /\ UNCHANGED <<bin, bloc, bgz, bcause, classifyVars, legacyVars, pureVars, extractVars>>

Begin ==
  /\ bpc = "SchemaReady"
  /\ bdb' = beginTransaction(bdb)
  /\ bpc' = "readMeta"
  /\ UNCHANGED <<bfs, bin, bloc, bgz, bcause, classifyVars, legacyVars, pureVars, extractVars>>

\* readJsonMetadata(corePath)
ReadMetadata ==
  /\ bpc = "readMeta" /\ corePath \in bfs
  /\ bloc' = [bloc EXCEPT !.version = bin.core.version, !.region = bin.core.region]
  /\ bpc' = "tc"
  /\ UNCHANGED <<bfs, bin, bdb, bgz, bcause, classifyVars, legacyVars, pureVars, extractVars>>

\* one 'data' event of streamJsonArray: the callback inserts one row
\* (rows[k] is the row made of the k-th item of the array)
StreamItem(at, path, rows, table, counter) ==
  /\ bpc = at /\ path \in bfs
  /\ bloc.i < Len(rows)
  /\ IF \/ violatesNotNull(table, rows[bloc.i + 1])
        \/ violatesPrimaryKey(bdb, table, rows[bloc.i + 1])
     THEN failBuild("constraint") /\ UNCHANGED bloc
     ELSE /\ bdb' = insertRow(bdb, table, rows[bloc.i + 1])
          /\ bloc' = [bloc EXCEPT !.i = @ + 1, ![counter] = @ + 1]
          /\ UNCHANGED <<bpc, bcause>>
  /\ UNCHANGED <<bfs, bin, bgz, classifyVars, legacyVars, pureVars, extractVars>>

InsertTC ==
  StreamItem("tc", corePath,
             [k \in 1..Len(bin.core.trafficCalming) |-> tcRow(bin.core.trafficCalming[k])],
             "traffic_calming", "tcCount")
InsertRA ==
  StreamItem("ra", corePath,
             [k \in 1..Len(bin.core.roundabouts) |-> raRow(bin.core.roundabouts[k])],
             "roundabouts", "raCount")
InsertSurface ==
  StreamItem("surfaces", surfacePath,
             [k \in 1..Len(bin.surfaces) |-> surfaceRow(bin.surfaces[k])],
             "road_surfaces", "surfaceCount")
InsertWay ==
  StreamItem("ways", wayPath,
             [k \in 1..Len(bin.ways) |-> wayRow(bin.ways[k])],
             "road_ways", "wayCount")

\* the 'end' event of the stream
EndTC ==
  /\ bpc = "tc" /\ corePath \in bfs /\ bloc.i = Len(bin.core.trafficCalming)
  /\ bloc' = [bloc EXCEPT !.i = 0]
  /\ bpc' = "ra"
  /\ UNCHANGED <<bfs, bin, bdb, bgz, bcause, classifyVars, legacyVars, pureVars, extractVars>>

EndRA ==
  /\ bpc = "ra" /\ corePath \in bfs /\ bloc.i = Len(bin.core.roundabouts)
  /\ bloc' = [bloc EXCEPT !.i = 0]
  /\ bpc' = "CoreLoaded"
  /\ UNCHANGED <<bfs, bin, bdb, bgz, bcause, classifyVars, legacyVars, pureVars, extractVars>>

\* if (existsSync(surfacePath)) ... else ...
SurfacesBranch ==
  /\ bpc = "CoreLoaded"
  /\ bpc' = IF surfacePath \in bfs THEN "surfaces" ELSE "SurfacesSkipped"
  /\ UNCHANGED <<bfs, bin, bdb, bloc, bgz, bcause, classifyVars, legacyVars, pureVars, extractVars>>

\* faulty variant: the flag tells that the surface bundle was read
EndSurfaces_FlagOnFile ==
  /\ bpc = "surfaces" /\ surfacePath \in bfs /\ bloc.i = Len(bin.surfaces)
  /\ bloc' = [bloc EXCEPT !.i = 0, !.hasSurfaceData = TRUE]
  /\ bpc' = "SurfacesLoaded"
  /\ UNCHANGED <<bfs, bin, bdb, bgz, bcause, classifyVars, legacyVars, pureVars, extractVars>>

EndSurfaces ==
  /\ bpc = "surfaces" /\ surfacePath \in bfs /\ bloc.i = Len(bin.surfaces)
  /\ bloc' = [bloc EXCEPT !.i = 0, !.hasSurfaceData = bloc.surfaceCount > 0]
  /\ bpc' = "SurfacesLoaded"
  /\ UNCHANGED <<bfs, bin, bdb, bgz, bcause, classifyVars, legacyVars, pureVars, extractVars>>

WaysBranch ==
  /\ bpc \in {"SurfacesLoaded", "SurfacesSkipped"}
  /\ bpc' = IF wayPath \in bfs THEN "ways" ELSE "WaysSkipped"
  /\ UNCHANGED <<bfs, bin, bdb, bloc, bgz, bcause, classifyVars, legacyVars, pureVars, extractVars>>

EndWays ==
  /\ bpc = "ways" /\ wayPath \in bfs /\ bloc.i = Len(bin.ways)
  /\ bloc' = [bloc EXCEPT !.i = 0, !.hasWayData = bloc.wayCount > 0]
  /\ bpc' = "WaysLoaded"
  /\ UNCHANGED <<bfs, bin, bdb, bgz, bcause, classifyVars, legacyVars, pureVars, extractVars>>

\* the five metadata rows, in the order of the code
metadataRows(loc) ==
  <<(<<"version", loc.version>>), (<<"region", loc.region>>),
    (<<"createdAt", "<now>">>),
    (<<"hasSurfaceData", flagText(loc.hasSurfaceData)>>),
    (<<"hasWayData", flagText(loc.hasWayData)>>)>>

RECURSIVE insertRows(_, _, _)
insertRows(db, table, rows) ==
  IF rows = <<>> THEN db
  ELSE insertRows(insertRow(db, table, Head(rows)), table, Tail(rows))

\* faulty variant: the metadata rows are written right after the surface phase
WriteMetadata_BeforeWays ==
  /\ bpc \in {"SurfacesLoaded", "SurfacesSkipped", "WaysLoaded", "WaysSkipped"}
  /\ bdb' = insertRows(bdb, "metadata", metadataRows(bloc))
  /\ bpc' = "MetadataWritten"
  /\ UNCHANGED <<bfs, bin, bloc, bgz, bcause, classifyVars, legacyVars, pureVars, extractVars>>

WriteMetadata ==
  /\ bpc \in {"WaysLoaded", "WaysSkipped"}
  /\ IF \E i \in 1..Len(metadataRows(bloc)) :
          \/ violatesNotNull("metadata", metadataRows(bloc)[i])
          \/ violatesPrimaryKey(
                insertRows(bdb, "metadata", SubSeq(metadataRows(bloc), 1, i - 1)),
                "metadata", metadataRows(bloc)[i])
     THEN failBuild("constraint")
     ELSE /\ bdb' = insertRows(bdb, "metadata", metadataRows(bloc))
          /\ bpc' = "MetadataWritten"
          /\ UNCHANGED bcause
  /\ UNCHANGED <<bfs, bin, bloc, bgz, classifyVars, legacyVars, pureVars, extractVars>>

\* db.exec('COMMIT') throws when no transaction is active
Commit ==
  /\ bpc = "MetadataWritten"
  /\ IF bdb.inTxn
     THEN bdb' = commitAndClose(bdb) /\ bpc' = "Committed" /\ UNCHANGED bcause
     ELSE failBuild("sql")
  /\ UNCHANGED <<bfs, bin, bloc, bgz, classifyVars, legacyVars, pureVars, extractVars>>

\* statSync(sqlitePath); gzip -9 -k: keeps its input, refuses to overwrite
Compress ==
  /\ bpc = "Committed"
  /\ IF sqlitePath \in bfs /\ sqliteGzPath \notin bfs
     THEN /\ bfs' = bfs \cup {sqliteGzPath}
          /\ bgz' = [st |-> "new", tables |-> bdb.disk]
          /\ bpc' = "compressed"
          /\ UNCHANGED <<bdb, bcause>>
     ELSE failBuild("gzip") /\ UNCHANGED <<bfs, bgz>>
  /\ UNCHANGED <<bin, bloc, classifyVars, legacyVars, pureVars, extractVars>>

\* faulty variant: the uncompressed database is kept
removeUncompressed_Kept(fs) == fs

\* unlinkSync(sqlitePath)
removeUncompressed(fs) == fs \ {sqlitePath}

\* the uncompressed file is removed, statSync(sqliteGzPath) succeeds
RemoveUncompressed ==
  /\ bpc = "compressed" /\ sqlitePath \in bfs
  /\ bfs' = removeUncompressed(bfs)
  /\ bpc' = "Finalized"
  /\ UNCHANGED <<bin, bdb, bloc, bgz, bcause, classifyVars, legacyVars, pureVars, extractVars>>

BuildFailPoints ==
  {"clean", "cleanGz", "open", "SchemaReady", "readMeta", "tc", "ra", "surfaces", "ways",
   "WaysLoaded", "WaysSkipped", "MetadataWritten", "Committed", "compressed"}

\* a file system, stream or SQLite error at any step after the check of the
\* core bundle: the exception leaves buildSqlite
BuildFails ==
  /\ bpc \in BuildFailPoints
  /\ failBuild("io")
  /\ UNCHANGED <<bfs, bin, bloc, bgz, classifyVars, legacyVars, pureVars, extractVars>>

NextBuild ==
  \/ CheckCore \/ CleanPrevious \/ CleanPreviousGz \/ OpenDb \/ Begin
  \/ ReadMetadata
  \/ InsertTC \/ EndTC \/ InsertRA \/ EndRA
  \/ SurfacesBranch \/ InsertSurface \/ EndSurfaces
  \/ WaysBranch \/ InsertWay \/ EndWays
  \/ WriteMetadata \/ Commit \/ Compress \/ RemoveUncompressed
  \/ BuildFails

SpecBuild == InitBuild /\ [][NextBuild]_vars

RowCount(tables) ==
  Len(tables["traffic_calming"]) + Len(tables["roundabouts"])
    + Len(tables["road_surfaces"]) + Len(tables["road_ways"])
    + Len(tables["metadata"])

----------------------------------------------------------------------------
(* C1 *)

\* C1: a build that fails after it created <region>.sqlite has aborted its
\* transaction and deleted that file: no failed run leaves <region>.sqlite.
C1_FailureDeletesStore ==
  (bpc = "Failed" /\ bdb.createdByRun) =>
     (~bdb.inTxn /\ sqlitePath \notin bfs)

----------------------------------------------------------------------------
(* C5 *)

\* C5: when the core bundle does not exist, the build fails with
\* MissingRequiredInput at its first step: it never gets past the check, no
\* database is opened and no row is inserted.
C5_MissingCoreAborts ==
  (corePath \notin bfs) =>
     /\ bpc \in {"Init", "Failed"}
     /\ bpc = "Failed" => bcause = "MissingRequiredInput"
     /\ ~bdb.createdByRun /\ ~bdb.open /\ bdb.inserts = 0

\* a build stopped by the missing core bundle, heavy bundles present
C5_Witness ==
  /\ corePath \notin bfs /\ surfacePath \in bfs
  /\ bpc = "Failed" /\ bcause = "MissingRequiredInput"

----------------------------------------------------------------------------
(* C6 *)

\* the output directory holds the core bundle and no heavy bundle
CoreOnly == corePath \in bfs /\ surfacePath \notin bfs /\ wayPath \notin bfs

\* the steps of buildSqlite other than an error of its environment
BuildProgress ==
  \/ CheckCore \/ CleanPrevious \/ CleanPreviousGz \/ OpenDb \/ Begin
  \/ ReadMetadata
  \/ InsertTC \/ EndTC \/ InsertRA \/ EndRA
  \/ SurfacesBranch \/ InsertSurface \/ EndSurfaces
  \/ WaysBranch \/ InsertWay \/ EndWays
  \/ WriteMetadata \/ Commit \/ Compress \/ RemoveUncompressed

MetadataOf(tables) ==
  {tables["metadata"][k] : k \in 1..Len(tables["metadata"])}

\* C6: with the core bundle and neither heavy bundle, the build can always
\* take its next step and the absence of the heavy bundles never makes it
\* fail (it fails only on an I/O error or on a row the schema rejects);
\* when it is Finalized the stored metadata has hasSurfaceData = 'false' and
\* hasWayData = 'false', and road_surfaces and road_ways are empty.
C6_CoreOnlyBuild ==
  CoreOnly =>
     /\ bpc = "Failed" => bcause \in {"io", "constraint"}
     /\ bpc \notin {"Finalized", "Failed"} => ENABLED BuildProgress
     /\ bpc = "Finalized" =>
          /\ bgz.st = "new"
          /\ <<"hasSurfaceData", "false">> \in MetadataOf(bgz.tables)
          /\ <<"hasWayData", "false">> \in MetadataOf(bgz.tables)
          /\ <<"hasSurfaceData", "true">> \notin MetadataOf(bgz.tables)
          /\ <<"hasWayData", "true">> \notin MetadataOf(bgz.tables)
          /\ bgz.tables["road_surfaces"] = <<>>
          /\ bgz.tables["road_ways"] = <<>>

\* a core-only build that is Finalized, with rows of the core bundle loaded
C6_Witness ==
  /\ CoreOnly /\ bpc = "Finalized"
  /\ Len(bgz.tables["traffic_calming"]) > 0
  /\ Len(bgz.tables["metadata"]) = 5

----------------------------------------------------------------------------
(* C7 *)

\* C7: every insert is made inside the one transaction of the build (after
\* its BEGIN, before its COMMIT), and as long as that transaction has not
\* committed the store on disk holds no row: a build that fails before
\* COMMIT leaves no partial rows.
C7_SingleTransaction ==
  /\ bdb.autoInserts = 0
  /\ bdb.begins <= 1 /\ bdb.commits <= bdb.begins
  /\ bdb.inserts > 0 => bdb.begins = 1
  /\ (bdb.createdByRun /\ bdb.commits = 0) => RowCount(bdb.disk) = 0
  /\ (bpc = "Failed" /\ bdb.commits = 0) => (~bdb.inTxn /\ bgz.st # "new")

\* a build that failed with rows inserted and not committed
C7_Witness ==
  /\ bpc = "Failed" /\ bdb.inserts > 2 /\ bdb.commits = 0
  /\ sqlitePath \in bfs

----------------------------------------------------------------------------
(* C8 *)

\* C8: a Finalized build has <region>.sqlite.gz and no <region>.sqlite, and
\* the uncompressed file of the build is removed only once the transaction
\* has committed and the compressed file exists.
C8_OnlyCompressedKept ==
  /\ [](bpc = "Finalized" =>
          (sqliteGzPath \in bfs /\ sqlitePath \notin bfs /\ bgz.st = "new"))
  /\ [][(bdb.createdByRun /\ sqlitePath \in bfs /\ sqlitePath \notin bfs') =>
          (bdb.commits = 1 /\ sqliteGzPath \in bfs /\ bgz.st = "new"
             /\ bgz.tables = bdb.disk)]_vars

\* a Finalized build whose store holds rows of all four data tables
C8_Witness ==
  /\ bpc = "Finalized"
  /\ Len(bgz.tables["traffic_calming"]) > 0 /\ Len(bgz.tables["roundabouts"]) > 0
  /\ Len(bgz.tables["road_surfaces"]) > 0 /\ Len(bgz.tables["road_ways"]) > 0

----------------------------------------------------------------------------
(* C11 *)

\* the normalized surface vocabulary
SurfaceVocabulary ==
  {"asphalt", "concrete", "paved", "cobblestone", "gravel", "compacted",
   "dirt", "grass", "unpaved", "unknown"}

\* the table of normalizeSurfaceType
surfaceMap ==
  [x \in {"asphalt"} |-> "asphalt"]
    @@ [x \in {"concrete", "concrete:plates", "concrete:lanes"} |-> "concrete"]
    @@ [x \in {"paved"} |-> "paved"]
    @@ [x \in {"cobblestone", "cobblestone:flattened", "paving_stones", "sett"}
          |-> "cobblestone"]
    @@ [x \in {"gravel", "fine_gravel", "pebblestone"} |-> "gravel"]
    @@ [x \in {"compacted"} |-> "compacted"]
    @@ [x \in {"dirt", "earth", "mud", "sand"} |-> "dirt"]
    @@ [x \in {"grass", "grass_paver"} |-> "grass"]
    @@ [x \in {"unpaved", "ground"} |-> "unpaved"]

\* the methods an object literal inherits from Object.prototype
InheritedMethods ==
  {"constructor", "toString", "toLocaleString", "valueOf", "hasOwnProperty",
   "isPrototypeOf", "propertyIsEnumerable", "__defineGetter__",
   "__defineSetter__", "__lookupGetter__", "__lookupSetter__"}

\* a function (JSON.stringify leaves the property out) and Object.prototype
\* (JSON.stringify writes {})
FunctionValue   == [t |-> "function"]
ObjectPrototype == [t |-> "object", v |-> <<>>]

\* map[osmSurface] ?? 'unknown': the lookup on the object literal also
\* finds the inherited properties, which are not strings
normalizeSurfaceType(osmSurface) ==
  IF osmSurface \in DOMAIN surfaceMap THEN surfaceMap[osmSurface]
  ELSE IF osmSurface \in InheritedMethods THEN FunctionValue
  ELSE IF osmSurface = "__proto__" THEN ObjectPrototype
  ELSE "unknown"

\* the road-surface entries written to the scratch file by the classified line
SurfaceEntries ==
  {cOut.acc.rsTemp[i] : i \in {j \in 1..Len(cOut.acc.rsTemp) :
                                  cOut.acc.rsTemp[j].tok = "entry"}}

\* C11: every road-surface record written for a line carries a surface value
\* of the normalized vocabulary, the value the table gives for its raw tag
\* ("unknown" when the table has none).
C11_SurfaceNormalized ==
  (cpc = "done") =>
     \A e \in SurfaceEntries :
        /\ e.surface \in SurfaceVocabulary
        /\ e.surface = normalizeSurfaceType(cIn.props["surface"])

----------------------------------------------------------------------------
(* C12 *)

\* the classified line is a LineString feature with tags and a coordinate list
ClassifiedLineString == Classified("LineString")

\* the classified line is a LineString feature with tags and at least one
\* vertex
ClassifiedWay == ClassifiedLineString /\ cIn.coords.line # <<>>

\* C12: a LineString tagged junction=roundabout produces no road-surface
\* record whatever its surface tag, and a LineString (of at least one vertex)
\* with a non-empty surface tag that is not junction=roundabout produces
\* exactly one; no line is recorded both as a roundabout and as a road
\* surface.
C12_RoundaboutExcludesSurface ==
  /\ ClassifiedLineString =>
       /\ Is(cIn.props, "junction", "roundabout") =>
            (SurfaceEntries = {} /\ cOut.acc.roadSurfaceCount = 0)
       /\ ~(cOut.acc.roundabouts # <<>> /\ cOut.acc.roadSurfaceCount > 0)
  /\ (/\ ClassifiedWay
      /\ Truthy(cIn.props, "surface") /\ ~Is(cIn.props, "junction", "roundabout")) =>
        (cOut.acc.roadSurfaceCount = 1 /\ Len(cOut.acc.rsTemp) = 1
           /\ cOut.acc.rsTemp[1].tok = "entry")

\* a roundabout line that carries a surface tag: recorded as a roundabout,
\* no road-surface record
C12_Witness ==
  /\ ClassifiedWay /\ cIn.coords.line = <<VA, VB, VC>>
  /\ Is(cIn.props, "junction", "roundabout") /\ Is(cIn.props, "surface", "asphalt")
  /\ Len(cOut.acc.roundabouts) = 1 /\ cOut.acc.roadSurfaceCount = 0

----------------------------------------------------------------------------
(* SpecLegacy: the extractRegion that writes three bundles (core, ways,    *)
(* surfaces), from the conversion of the core data (step 4) to the end.    *)
(* The downloaded PBF is a list of OSM ways; osmium tags-filter and osmium *)
(* export turn it into the two GeoJSON sequences the streaming converters  *)
(* read.  The content of the core bundle is the one of SpecClassify; here  *)
(* only its version stamp is kept.                                         *)

\* w/highway=primary,primary_link,... of the osmium tags-filter of step 6
WayHighways ==
  {"primary", "primary_link", "secondary", "secondary_link", "tertiary",
   "tertiary_link", "residential", "unclassified", "living_street", "service"}

OsmWay(tags, nodes) == [tags |-> tags, nodes |-> nodes]

\* faulty variant: w/highway, every way with a highway tag passes
wayTagsFilter_AnyHighway(way) == "highway" \in DOMAIN way.tags

\* osmium tags-filter ... w/highway=<list>
wayTagsFilter(way) ==
  "highway" \in DOMAIN way.tags /\ way.tags["highway"] \in WayHighways

\* osmium tags-filter ... w/surface
surfaceTagsFilter(way) == "surface" \in DOMAIN way.tags

\* a line of a GeoJSON text sequence: the record separator RS (0x1e), then
\* the JSON text
RSLine(json) == [kind |-> "rs", json |-> json]

\* osmium export -f geojsonseq: one LineString feature per way, without id,
\* each on a line that begins with RS
osmiumExport(way) ==
  RSLine(Feature(FALSE, <<>>, way.tags, "LineString", LineC(way.nodes)))

\* line.trim() and JSON.parse: trim keeps the RS, on which JSON.parse
\* throws, so that the line is skipped like a malformed one
parseTrimmed(line) == IF line.kind = "rs" THEN Malformed ELSE line

RECURSIVE exportAll(_)
exportAll(ways) ==
  IF ways = <<>> THEN <<>>
  ELSE <<osmiumExport(Head(ways))>> \o exportAll(Tail(ways))

RECURSIVE flattenCoords(_)
\* for (const [lon, lat] of coords) flatCoords.push(lon, lat)
flattenCoords(coords) ==
  IF coords = <<>> THEN <<>>
  ELSE <<Head(coords)[1], Head(coords)[2]>> \o flattenCoords(Tail(coords))

\* the body of the loop of streamConvertWays; acc is roadWays
wayLine(raw, acc) ==
  LET line == parseTrimmed(raw) IN
  IF line.kind \in {"blank", "malformed"} THEN Ok(acc)
  ELSE IF line.kind = "scalar" \/ ~line.hasGeometry THEN Throw(acc)
  ELSE IF line.gtype # "LineString" THEN Ok(acc)
  ELSE IF ~line.hasProps THEN Throw(acc)           \* undefined.highway
  ELSE IF ~Truthy(line.props, "highway") THEN Ok(acc)
  ELSE IF ~line.hasCoords THEN Throw(acc)          \* undefined.length
  ELSE IF Len(line.coords.line) < 2 THEN Ok(acc)
  ELSE Ok(Append(acc, [coords |-> flattenCoords(line.coords.line),
                       highway |-> line.props["highway"]]))

\* the body of the loop of streamConvertSurfaces; acc is roadSurfaces
surfaceLine(raw, acc) ==
  LET line == parseTrimmed(raw) IN
  IF line.kind \in {"blank", "malformed"} THEN Ok(acc)
  ELSE IF line.kind = "scalar" \/ ~line.hasGeometry THEN Throw(acc)
  ELSE IF line.gtype # "LineString" THEN Ok(acc)
  ELSE IF ~line.hasProps THEN Throw(acc)           \* undefined.surface
  ELSE IF ~Truthy(line.props, "surface") THEN Ok(acc)
  ELSE IF ~line.hasCoords THEN Throw(acc)          \* undefined.length
  ELSE IF Len(line.coords.line) < 2 THEN Ok(acc)
  ELSE Ok(Append(acc, [surface |-> normalizeSurfaceType(line.props["surface"]),
                       coords |-> flattenCoords(line.coords.line)]))

\* the ways a downloaded PBF may hold
OsmWays ==
  {OsmWay(Strip([highway |-> "residential"]), <<VA, VB>>),
   OsmWay(Strip([highway |-> "primary_link", surface |-> "sett"]), <<VB, VC, VA>>),
   OsmWay(Strip([highway |-> "motorway", surface |-> "asphalt"]), <<VA, VB>>),
   OsmWay(Strip([highway |-> "footway"]), <<VA, VC>>),
   OsmWay(Strip([surface |-> "cobbles"]), <<VA, VB>>),
   OsmWay(Strip([highway |-> "residential", surface |-> "cobbles"]), <<VC, VA>>),
   OsmWay(Strip([highway |-> "service", surface |-> "constructor"]), <<VA, VC>>)}

SeqsUpTo(S, n) == UNION {[1..k -> S] : k \in 0..n}

InitLegacy ==
  /\ lpc = "core"
  /\ lclock = 1
  /\ lleft = 0
  /\ \E pbf \in SeqsUpTo(OsmWays, MaxLines) :
       lout = [pbf |-> pbf,
               versions |-> [core |-> 0, ways |-> 0, surfaces |-> 0],
               wayStream |-> <<>>, roadWays |-> <<>>,
               surfaceStream |-> <<>>, roadSurfaces |-> <<>>]
  /\ IdleClassify /\ IdleExtract /\ IdleBuild /\ IdlePure

\* the wall clock passes midnight
LegacyTick ==
  /\ lpc \notin {"done", "exit1"}
  /\ lclock < MaxDay
  /\ lclock' = lclock + 1
  /\ UNCHANGED <<lpc, lleft, lout, classifyVars, extractVars, buildVars, pureVars>>

\* step 4: convertToBundledFormat stamps the core bundle with new Date()
LegacyCore ==
  /\ lpc = "core"
  /\ lout' = [lout EXCEPT !.versions.core = lclock]
  /\ lpc' = "wayFilter"
  /\ UNCHANGED <<lclock, lleft, classifyVars, extractVars, buildVars, pureVars>>

\* steps 6 and 7: filter the highway ways of the PBF and export them
LegacyWayFilter ==
  /\ lpc = "wayFilter"
  /\ LET stream == exportAll(SelectSeq(lout.pbf, wayTagsFilter))
     IN /\ lout' = [lout EXCEPT !.wayStream = stream]
        /\ lleft' = Len(stream)
  /\ lpc' = "ways"
  /\ UNCHANGED <<lclock, classifyVars, extractVars, buildVars, pureVars>>

\* step 8: one iteration of the loop of streamConvertWays
LegacyWayLine ==
  /\ lpc = "ways" /\ lleft > 0
  /\ LET r == wayLine(lout.wayStream[Len(lout.wayStream) - lleft + 1], lout.roadWays)
     IN /\ lout' = [lout EXCEPT !.roadWays = r.acc]
        /\ lpc' = IF r.threw THEN "exit1" ELSE "ways"
  /\ lleft' = lleft - 1
  /\ UNCHANGED <<lclock, classifyVars, extractVars, buildVars, pureVars>>

\* step 8: streamConvertWays returns, stamping the ways bundle with new Date()
LegacyWaysEnd ==
  /\ lpc = "ways" /\ lleft = 0
  /\ lout' = [lout EXCEPT !.versions.ways = lclock]
  /\ lpc' = "surfaceFilter"
  /\ UNCHANGED <<lclock, lleft, classifyVars, extractVars, buildVars, pureVars>>

\* steps 9 and 10: narrow the highway ways to those with a surface tag
LegacySurfaceFilter ==
  /\ lpc = "surfaceFilter"
  /\ LET stream == exportAll(SelectSeq(SelectSeq(lout.pbf, wayTagsFilter),
                                       surfaceTagsFilter))
     IN /\ lout' = [lout EXCEPT !.surfaceStream = stream]
        /\ lleft' = Len(stream)
  /\ lpc' = "surfaces"
  /\ UNCHANGED <<lclock, classifyVars, extractVars, buildVars, pureVars>>

\* step 11: one iteration of the loop of streamConvertSurfaces
LegacySurfaceLine ==
  /\ lpc = "surfaces" /\ lleft > 0
  /\ LET r == surfaceLine(lout.surfaceStream[Len(lout.surfaceStream) - lleft + 1],
                          lout.roadSurfaces)
     IN /\ lout' = [lout EXCEPT !.roadSurfaces = r.acc]
        /\ lpc' = IF r.threw THEN "exit1" ELSE "surfaces"
  /\ lleft' = lleft - 1
  /\ UNCHANGED <<lclock, classifyVars, extractVars, buildVars, pureVars>>

\* step 11: streamConvertSurfaces returns, stamping the surfaces bundle
LegacySurfacesEnd ==
  /\ lpc = "surfaces" /\ lleft = 0
  /\ lout' = [lout EXCEPT !.versions.surfaces = lclock]
  /\ lpc' = "cleanup"
  /\ UNCHANGED <<lclock, lleft, classifyVars, extractVars, buildVars, pureVars>>

\* end of the try block: the remaining intermediate files are removed
LegacyCleanup ==
  /\ lpc = "cleanup"
  /\ lpc' = "done"
  /\ UNCHANGED <<lclock, lleft, lout, classifyVars, extractVars, buildVars, pureVars>>

\* a call of the try block throws (readFileSync, writeFileSync, statSync,
\* unlinkSync, execSync of osmium, the read stream of a converter): the
\* bundle being made is not written, the catch block ends the process
LegacyFails ==
  /\ lpc \in {"core", "wayFilter", "ways", "surfaceFilter", "surfaces", "cleanup"}
  /\ lpc' = "exit1"
  /\ UNCHANGED <<lclock, lleft, lout, classifyVars, extractVars, buildVars, pureVars>>

NextLegacy ==
  \/ LegacyTick \/ LegacyCore \/ LegacyWayFilter \/ LegacyWayLine \/ LegacyWaysEnd
  \/ LegacySurfaceFilter \/ LegacySurfaceLine \/ LegacySurfacesEnd
  \/ LegacyCleanup \/ LegacyFails

SpecLegacy == InitLegacy /\ [][NextLegacy]_vars

----------------------------------------------------------------------------
(* C13 *)

\* the highway classifications of a road way
RecognizedHighways ==
  {"primary", "secondary", "tertiary", "residential", "unclassified",
   "living_street", "service", "primary_link", "secondary_link", "tertiary_link"}

\* the record holds every vertex of the way, in order and unchanged
KeepsEveryVertex(rec, way) ==
  /\ Len(rec.coords) = 2 * Len(way.nodes)
  /\ \A j \in 1..Len(way.nodes) :
       rec.coords[2 * j - 1] = way.nodes[j][1] /\ rec.coords[2 * j] = way.nodes[j][2]

\* the way has a recognized highway classification
Recognized(way) ==
  "highway" \in DOMAIN way.tags /\ way.tags["highway"] \in RecognizedHighways

\* the road-way records made of one way of the PBF: the highway filter, the
\* export, and the loop of streamConvertWays on the JSON text of the line
RoadWaysOf(way) ==
  IF wayTagsFilter(way) THEN wayLine(osmiumExport(way).json, <<>>).acc ELSE <<>>

\* C13: a road-way record is produced only for a way whose highway tag is a
\* recognized classification: every record of the ways bundle comes from
\* such a way, carries its classification and keeps every vertex of the way
\* unrounded, and a way with another highway value (or none) produces no
\* record; the same holds of the records made of the JSON text of each
\* exported line.
C13_RoadWaysRecognized ==
  /\ \A i \in 1..Len(lout.roadWays) :
       /\ lout.roadWays[i].highway \in RecognizedHighways
       /\ \E k \in 1..Len(lout.pbf) :
            /\ Recognized(lout.pbf[k])
            /\ lout.pbf[k].tags["highway"] = lout.roadWays[i].highway
            /\ KeepsEveryVertex(lout.roadWays[i], lout.pbf[k])
  /\ Len(lout.roadWays) <=
       Cardinality({k \in 1..Len(lout.pbf) : Recognized(lout.pbf[k])})
  /\ \A k \in 1..Len(lout.pbf) :
       LET way  == lout.pbf[k]
           recs == RoadWaysOf(way)
       IN /\ ~Recognized(way) => recs = <<>>
          /\ \A i \in 1..Len(recs) :
               /\ recs[i].highway = way.tags["highway"]
               /\ KeepsEveryVertex(recs[i], way)

\* a PBF with a residential street and a motorway, its highway ways
\* converted: the motorway is not among the exported lines and the
\* residential street, once parsed, gives a record with its two vertices
C13_Witness ==
  /\ lpc = "surfaceFilter"
  /\ Len(lout.pbf) = 2 /\ Len(lout.wayStream) = 1
  /\ lout.pbf[1].tags = Strip([highway |-> "residential"])
  /\ "highway" \in DOMAIN lout.pbf[2].tags /\ lout.pbf[2].tags["highway"] = "motorway"
  /\ RoadWaysOf(lout.pbf[2]) = <<>>
  /\ Len(RoadWaysOf(lout.pbf[1])) = 1
  /\ KeepsEveryVertex(RoadWaysOf(lout.pbf[1])[1], lout.pbf[1])

----------------------------------------------------------------------------
(* C16 *)

\* C16: the bundles written by one region run carry the same version, also
\* when the date changes between their compositions.
C16_SameVersion ==
  (lpc = "done") =>
     /\ lout.versions.core = lout.versions.ways
     /\ lout.versions.core = lout.versions.surfaces

----------------------------------------------------------------------------
(* C14 *)

\* the keys a TrafficCalmingRecord may carry as tags
TagAllowList == {"name", "maxspeed", "surface", "highway", "ref"}

\* the allow-listed keys that have a non-empty value in the properties
PresentAllowed(props) ==
  {k \in TagAllowList : k \in DOMAIN props /\ props[k] # ""}

\* C14: the tags of every TrafficCalmingRecord of a line are absent when the
\* feature has no allow-listed key with a non-empty value, and otherwise a
\* mapping of exactly those keys to the feature's values.
C14_TagsAllowListed ==
  (cpc = "done" /\ cIn.kind = "feature" /\ cIn.hasProps) =>
     \A i \in 1..Len(TCOut) :
        IF PresentAllowed(cIn.props) = {}
        THEN TCOut[i].tags = Undefined
        ELSE /\ TCOut[i].tags # Undefined
             /\ DOMAIN TCOut[i].tags.v = PresentAllowed(cIn.props)
             /\ DOMAIN TCOut[i].tags.v \subseteq TagAllowList
             /\ \A k \in DOMAIN TCOut[i].tags.v : TCOut[i].tags.v[k] = cIn.props[k]

\* a bridge with an empty surface value, a highway value and tags outside
\* the allow-list: the record keeps highway only
C14_Witness ==
  /\ Classified("LineString") /\ Len(TCOut) = 1
  /\ Is(cIn.props, "bridge", "yes") /\ Is(cIn.props, "surface", "")
  /\ Is(cIn.props, "highway", "residential")
  /\ TCOut[1].tags = Obj([k \in {"highway"} |-> "residential"])

----------------------------------------------------------------------------
(* C15 *)

IsPrefix(s, t) == Len(s) <= Len(t) /\ \A i \in 1..Len(s) : s[i] = t[i]

RECURSIVE EntriesOf(_)
\* the road-surface entries of a token list, in order
EntriesOf(toks) ==
  IF toks = <<>> THEN <<>>
  ELSE (IF Head(toks).tok = "entry" THEN <<Head(toks)>> ELSE <<>>)
         \o EntriesOf(Tail(toks))

\* the records of a later line are placed after those of the lines before it
AppendedInOrder ==
  /\ IsPrefix(eacc.trafficCalming, eacc'.trafficCalming)
  /\ IsPrefix(eacc.roundabouts, eacc'.roundabouts)
  /\ IsPrefix(eacc.rsTemp, eacc'.rsTemp)

\* the arrays of the core bundle are the collected records, in order; the
\* entries of the scratch file are the first of the entries written to its
\* stream, in order, and the surface bundle holds the entries of the file
BundlesInOrder ==
  /\ ebundle.core # <<>> =>
       LET doc == ebundle.core[1]
       IN /\ Len(doc.trafficCalming) = Len(eacc.trafficCalming)
          /\ \A i \in 1..Len(doc.trafficCalming) :
               doc.trafficCalming[i] = stringifyTC(eacc.trafficCalming[i])
          /\ Len(doc.roundabouts) = Len(eacc.roundabouts)
          /\ \A i \in 1..Len(doc.roundabouts) :
               doc.roundabouts[i] = stringifyRA(eacc.roundabouts[i])
  /\ IsPrefix(EntriesOf(ebundle.scratch), EntriesOf(eacc.rsTemp))
  /\ epc \in {"surfaceEnd", "cleanup", "done"} =>
       EntriesOf(ebundle.surface) = EntriesOf(ebundle.scratch)

\* C15: in each category the records of the bundle are in the order in which
\* their features were read: every line's records are appended after those
\* of the lines read before it, and the bundles hold the collected records
\* in that order, the surfaces after the spill to the scratch file and the
\* copy into the bundle (the records the scratch file holds, in the order
\* in which they were written).
C15_EncounterOrder ==
  /\ [][AppendedInOrder]_vars
  /\ []BundlesInOrder

\* a finished run with two surface entries and a traffic-calming record
C15_Witness ==
  /\ epc = "done"
  /\ Len(EntriesOf(ebundle.surface)) = 2
  /\ EntriesOf(ebundle.surface)[1].surface = "cobbles"
  /\ EntriesOf(ebundle.surface)[2].surface = "asphalt"
  /\ Len(ebundle.core[1].trafficCalming) = 1

----------------------------------------------------------------------------
(* C17 *)

\* the header written by composeSurfaceFile
surfaceHeader(version) == [tok |-> "{", version |-> version, region |-> "<id>"]

\* the tokens form {"version":..,"region":..,"roadSurfaces":[e,e,...]}:
\* header first, ']}' last, entries separated by single commas in between
ValidSurfaceDocument(toks) ==
  /\ Len(toks) >= 2
  /\ toks[1].tok = "{" /\ toks[Len(toks)].tok = "]}"
  /\ (Len(toks) - 2) % 2 = 1 \/ Len(toks) = 2
  /\ \A i \in 2..(Len(toks) - 1) :
       toks[i].tok = IF i % 2 = 0 THEN "entry" ELSE ","

\* C17: when the input yields no road-surface record the surface bundle is
\* the valid document {version, region, roadSurfaces: []}, in the run (the
\* scratch file exists with size 0) and also when the scratch file is
\* missing.
C17_EmptySurfaceBundle ==
  /\ (epc \in {"surfaceEnd", "cleanup", "done"} /\ eacc.roadSurfaceCount = 0) =>
        /\ ValidSurfaceDocument(ebundle.surface)
        /\ ebundle.surface = <<surfaceHeader(eversion), [tok |-> "]}"]>>
  /\ \A scratchExists \in BOOLEAN :
        LET doc == <<surfaceHeader(eversion)>> \o surfaceTail(scratchExists, <<>>)
        IN ValidSurfaceDocument(doc) /\ EntriesOf(doc) = <<>>

\* a finished run without road-surface record whose surface bundle exists
C17_Witness ==
  /\ epc = "done" /\ eacc.roadSurfaceCount = 0 /\ eleft = 0
  /\ efs[surfaceGz] = "complete" /\ ~existsSync(efs, rsTempPath)
  /\ Len(ebundle.surface) = 2

----------------------------------------------------------------------------
(* Function harness: one call of a pure helper on a bounded input          *)

MaxFlat  == 5     \* longest flat coordinate array handed to the bbox helper
MaxCoord == 30    \* largest |coordinate| (1e-8 degree) handed to the rounding

\* values of the flat coordinate arrays
FlatValues == {-20, 0, 30}

FlatArrays == UNION {[1..n -> FlatValues] : n \in 0..MaxFlat}

\* region ids as they appear in regions.json (slugs)
RegionIds == {"andorra", "andorra-filtered", "malta", "malta-surfaces", "nepal"}

\* join(__dirname, 'output'), relative to the directory of the script
OUTPUT_DIR == "output"

\* OUTPUT_DIR joined with a file name
joinOutput(name) == OUTPUT_DIR \o "/" \o name

\* every path extractRegion derives from the region id
regionPaths(regionId) ==
  [localPbf    |-> "/tmp/" \o regionId \o ".osm.pbf",
   filteredPbf |-> "/tmp/" \o regionId \o "-filtered.osm.pbf",
   rsTempPath  |-> "/tmp/" \o regionId \o "-roadsurfaces.ndjson",
   outputJson  |-> joinOutput(regionId \o ".json"),
   outputGz    |-> joinOutput(regionId \o ".json.gz"),
   surfaceGz   |-> joinOutput(regionId \o "-surfaces.json.gz")]

\* the set of paths one pipeline instance creates, writes or deletes: the
\* files derived from the region id, and OUTPUT_DIR, which mkdirSync creates
\* when the run finds it missing
touchedPaths(regionId, outputDirExists) ==
  LET p == regionPaths(regionId)
  IN {p[k] : k \in DOMAIN p} \cup (IF outputDirExists THEN {} ELSE {OUTPUT_DIR})

\* ties of the rounding, inside and outside of -MaxCoord..MaxCoord
TieSamples == {105, 0 - 125, 0 - 145, 5005, 6165, 0 - 6105, 123456785}

FunctionInputs ==
  {[op |-> "bbox", coords |-> c] : c \in FlatArrays}
    \cup {[op |-> "round", x |-> x] : x \in ((-MaxCoord)..MaxCoord) \cup TieSamples}
    \cup {[op |-> "paths", a |-> a, b |-> b, dir |-> dir] :
            a \in RegionIds, b \in RegionIds, dir \in BOOLEAN}

InitFunctions ==
  /\ fpc = "ready" /\ fIn \in FunctionInputs /\ fOut = <<>>
  /\ IdleClassify /\ IdleExtract /\ IdleBuild /\ IdleLegacy

CallBbox ==
  /\ fpc = "ready" /\ fIn.op = "bbox"
  /\ fOut' = computeBboxFromFlatCoords(fIn.coords)
  /\ fpc' = "done"
  /\ UNCHANGED <<fIn, classifyVars, extractVars, buildVars, legacyVars>>

\* a coordinate rounded, and the rounded value rounded again
CallRound ==
  /\ fpc = "ready" /\ fIn.op = "round"
  /\ fOut' = [once |-> Round7(fIn.x), twice |-> Round7(Round7(fIn.x))]
  /\ fpc' = "done"
  /\ UNCHANGED <<fIn, classifyVars, extractVars, buildVars, legacyVars>>

\* two pipeline instances, started with or without the output directory,
\* derive their paths
CallPaths ==
  /\ fpc = "ready" /\ fIn.op = "paths"
  /\ fOut' = [a |-> touchedPaths(fIn.a, fIn.dir), b |-> touchedPaths(fIn.b, fIn.dir)]
  /\ fpc' = "done"
  /\ UNCHANGED <<fIn, classifyVars, extractVars, buildVars, legacyVars>>

NextFunctions == CallBbox \/ CallRound \/ CallPaths

SpecFunctions == InitFunctions /\ [][NextFunctions]_vars

----------------------------------------------------------------------------
(* C18 *)

BboxCalled == fpc = "done" /\ fIn.op = "bbox" /\ Len(fIn.coords) >= 4

\* C18: for a flat [lon, lat, ...] array of length at least 4 the computed
\* box contains every pair (minLat <= lat_i <= maxLat, minLon <= lon_i <=
\* maxLon), each bound is the coordinate of some pair, and min = max on both
\* axes when all pairs are the same point.
C18_BboxContainsPairs ==
  BboxCalled =>
    LET c     == fIn.coords
        pairs == 1..(Len(c) \div 2)
        lon(k) == c[2 * k - 1]
        lat(k) == c[2 * k]
    IN /\ \A f \in DOMAIN fOut : fOut[f].t = "number"
       /\ \A k \in pairs :
            /\ fOut.minLat.v <= lat(k) /\ lat(k) <= fOut.maxLat.v
            /\ fOut.minLon.v <= lon(k) /\ lon(k) <= fOut.maxLon.v
       /\ \E k \in pairs : lat(k) = fOut.minLat.v
       /\ \E k \in pairs : lat(k) = fOut.maxLat.v
       /\ \E k \in pairs : lon(k) = fOut.minLon.v
       /\ \E k \in pairs : lon(k) = fOut.maxLon.v
       /\ (\A j, k \in pairs : lon(j) = lon(k) /\ lat(j) = lat(k)) =>
            (fOut.minLat = fOut.maxLat /\ fOut.minLon = fOut.maxLon)

\* the box of two different points whose longitudes lie outside the
\* latitude range
C18_Witness ==
  /\ BboxCalled /\ fIn.coords = <<30, -20, -20, 0>>
  /\ fOut.minLat = Num(-20) /\ fOut.maxLat = Num(0)
  /\ fOut.minLon = Num(-20) /\ fOut.maxLon = Num(30)

----------------------------------------------------------------------------
(* C19 *)

\* C19: two pipeline instances for different region ids never touch the
\* same file path: the sets of file paths derived from two different ids are
\* disjoint.
C19_DisjointPaths ==
  (fpc = "done" /\ fIn.op = "paths" /\ fIn.a # fIn.b) =>
     (fOut.a \ {OUTPUT_DIR}) \cap (fOut.b \ {OUTPUT_DIR}) = {}

----------------------------------------------------------------------------
(* C20 *)

\* C20: rounding a coordinate to 7 decimal digits is idempotent: rounding
\* the rounded value gives the same value again.
C20_RoundIdempotent ==
  (fpc = "done" /\ fIn.op = "round") => fOut.twice = fOut.once

\* a coordinate with a non-zero eighth digit, changed by the first rounding
C20_Witness ==
  /\ fpc = "done" /\ fIn.op = "round" /\ fIn.x = 26
  /\ fOut.once = 30 /\ fOut.twice = 30

----------------------------------------------------------------------------
(* C21 *)

\* the phases of one region build, in their order
BuildPhases ==
  <<{"Init"}, {"SchemaReady"}, {"CoreLoaded"},
    {"SurfacesLoaded", "SurfacesSkipped"}, {"WaysLoaded", "WaysSkipped"},
    {"MetadataWritten"}, {"Committed"}, {"Finalized"}>>

NamedPhases == UNION {BuildPhases[k] : k \in DOMAIN BuildPhases}

\* the phase a position of buildSqlite belongs to: the last phase entered
PhaseRank(pc) ==
  CASE pc \in {"Init", "clean", "cleanGz", "open"}         -> 1
    [] pc \in {"SchemaReady", "readMeta", "tc", "ra"}      -> 2
    [] pc \in {"CoreLoaded", "surfaces"}                   -> 3
    [] pc \in {"SurfacesLoaded", "SurfacesSkipped", "ways"} -> 4
    [] pc \in {"WaysLoaded", "WaysSkipped"}                -> 5
    [] pc = "MetadataWritten"                              -> 6
    [] pc \in {"Committed", "compressed"}                  -> 7
    [] pc = "Finalized"                                    -> 8

PhaseStep ==
  (bpc' # bpc /\ bpc' # "Failed") =>
     /\ bpc # "Failed"
     /\ IF bpc' \in NamedPhases
        THEN /\ PhaseRank(bpc') = PhaseRank(bpc) + 1
             /\ bpc' \in BuildPhases[PhaseRank(bpc')]
        ELSE PhaseRank(bpc') = PhaseRank(bpc)
     /\ bpc' = "MetadataWritten" => bpc \in {"WaysLoaded", "WaysSkipped"}
     /\ bpc' = "Finalized" => PhaseRank(bpc) = 7

\* C21: a build passes through its phases only in the order Init,
\* SchemaReady, CoreLoaded, SurfacesLoaded or SurfacesSkipped, WaysLoaded or
\* WaysSkipped, MetadataWritten, Committed, Finalized: every step stays in
\* the current phase or enters the next one, no phase is entered twice,
\* metadata is written only once the way phase has ended, and Finalized
\* follows Committed.
C21_PhaseOrder == [][PhaseStep]_vars

\* a finished build that loaded surfaces and skipped ways
C21_Witness ==
  /\ bpc = "Finalized" /\ bloc.surfaceCount = 2 /\ bloc.hasSurfaceData
  /\ wayPath \notin bfs /\ ~bloc.hasWayData
  /\ Len(bgz.tables["metadata"]) = 5

----------------------------------------------------------------------------
(* C22 *)

\* the separators among the tokens written to the scratch sink
SeparatorsOf(toks) == SelectSeq(toks, LAMBDA t : t.tok = ",")

\* the content of the scratch sink: the writes handed to its stream while
\* the loop runs, the file once parseAndStreamFeatures has returned
SinkContent ==
  IF epc \in {"composeCore", "composeSurface", "surfaceCopy"}
  THEN ebundle.scratch ELSE eacc.rsTemp

\* C22: whatever number n of road-surface records has been spilled, the
\* scratch sink holds n object fragments and max(n - 1, 0) separators, in
\* the form e , e , ... , e (no leading comma, one comma before every later
\* fragment), so that '[' + contents + ']' is an array of n elements, and
\* roadSurfaceCount is n.
C22_ScratchFragments ==
  LET toks == SinkContent
      n    == eacc.roadSurfaceCount
  IN /\ Len(EntriesOf(toks)) = n
     /\ Len(SeparatorsOf(toks)) = IF n > 0 THEN n - 1 ELSE 0
     /\ Len(toks) = Len(EntriesOf(toks)) + Len(SeparatorsOf(toks))
     /\ \A i \in 1..Len(toks) :
          toks[i].tok = IF i % 2 = 1 THEN "entry" ELSE ","

----------------------------------------------------------------------------
(* C23 *)

\* C23: every road-surface record the extractor spills for a line has at
\* least 2 coordinate pairs (coords of length >= 4), so the loader's
\* computeBboxFromFlatCoords gives four finite bounds for it.
C23_TwoPairsReachLoader ==
  (cpc = "done") =>
     \A e \in SurfaceEntries :
        /\ Len(e.coords) >= 4
        /\ LET row == surfaceRow([surface |-> e.surface, coords |-> e.coords])
           IN \A c \in {"min_lat", "max_lat", "min_lon", "max_lon"} :
                 row[c].t = "number"

----------------------------------------------------------------------------
(* C24 *)

\* C24: the rules are evaluated independently.  A LineString (of at least
\* one vertex) tagged bridge=yes with a surface tag and without
\* junction=roundabout yields a traffic-calming record and a road-surface
\* record; a Point tagged traffic_calming=hump and highway=speed_camera
\* yields a speed_bump record and a speed_camera record.
C24_IndependentRules ==
  /\ (/\ ClassifiedWay
      /\ Is(cIn.props, "bridge", "yes") /\ Truthy(cIn.props, "surface")
      /\ ~Is(cIn.props, "junction", "roundabout")) =>
        /\ \E i \in DOMAIN TCOut : TCOut[i].type = "bridge"
        /\ \E e \in SurfaceEntries : e.surface = cIn.props["surface"]
  /\ (/\ Classified("Point")
      /\ Is(cIn.props, "traffic_calming", "hump")
      /\ Is(cIn.props, "highway", "speed_camera")) =>
        /\ \E i \in DOMAIN TCOut : TCOut[i].type = "speed_bump"
        /\ \E i \in DOMAIN TCOut : TCOut[i].type = "speed_camera"

\* a bridge that carries a surface tag: one record of each category
C24_Witness ==
  /\ ClassifiedWay /\ cIn.coords.line = <<VA, VB>>
  /\ Is(cIn.props, "bridge", "yes") /\ Is(cIn.props, "surface", "cobbles")
  /\ ~Is(cIn.props, "junction", "roundabout")
  /\ Len(TCOut) = 1 /\ TCOut[1].type = "bridge"
  /\ cOut.acc.roadSurfaceCount = 1

----------------------------------------------------------------------------
(* C25 *)

\* the stored flag of the key is 'true', and the key is stored once
FlagIsTrue(tables, key) ==
  /\ <<key, "true">> \in MetadataOf(tables)
  /\ <<key, "false">> \notin MetadataOf(tables)
FlagIsFalse(tables, key) ==
  /\ <<key, "false">> \in MetadataOf(tables)
  /\ <<key, "true">> \notin MetadataOf(tables)

FlagsMatchRows(tables) ==
  /\ IF Len(tables["road_surfaces"]) > 0
     THEN FlagIsTrue(tables, "hasSurfaceData")
     ELSE FlagIsFalse(tables, "hasSurfaceData")
  /\ IF Len(tables["road_ways"]) > 0
     THEN FlagIsTrue(tables, "hasWayData")
     ELSE FlagIsFalse(tables, "hasWayData")

\* C25: the flag hasSurfaceData (hasWayData) written by a build is 'true'
\* exactly when the build inserted at least one row into road_surfaces
\* (road_ways); a heavy bundle that exists with an empty array gives
\* 'false', as an absent one does.
C25_FlagsMatchRows ==
  /\ bpc = "MetadataWritten" => FlagsMatchRows(bdb.txn)
  /\ bpc \in {"Committed", "compressed"} => FlagsMatchRows(bdb.disk)
  /\ bpc = "Finalized" => FlagsMatchRows(bgz.tables)

\* a finished build whose surface bundle exists with an empty array and
\* whose way bundle holds a record
C25_Witness ==
  /\ bpc = "Finalized" /\ surfacePath \in bfs /\ bin.surfaces = <<>>
  /\ FlagIsFalse(bgz.tables, "hasSurfaceData")
  /\ Len(bgz.tables["road_ways"]) = 1 /\ FlagIsTrue(bgz.tables, "hasWayData")

----------------------------------------------------------------------------
(* C26 *)

\* with the core bundle missing no step touches the outputs of an earlier
\* build; the step that creates the database starts from an empty file
CheckPrecedesRemoval ==
  /\ coreMissing(bfs) =>
       /\ bfs' = bfs /\ bgz' = bgz /\ bdb'.disk = bdb.disk
       /\ ~bdb'.createdByRun
  /\ (bpc = "open" /\ bpc' = "SchemaReady") =>
       /\ bdb'.disk = EmptyTables /\ bdb'.createdByRun
       /\ sqliteGzPath \notin bfs'

\* C26: the existence check of the core bundle precedes the removal of the
\* earlier outputs.  When the core bundle is missing, <region>.sqlite and
\* <region>.sqlite.gz of an earlier build stay as they were; in a run that
\* passed the check both are gone when the new database is created.
C26_CheckBeforeRemoval ==
  /\ [][CheckPrecedesRemoval]_vars
  /\ [](bpc = "open" => (sqlitePath \notin bfs /\ sqliteGzPath \notin bfs))

\* a build refused for its missing core bundle, the two earlier outputs
\* still in place
C26_Witness ==
  /\ bpc = "Failed" /\ bcause = "MissingRequiredInput"
  /\ sqlitePath \in bfs /\ sqliteGzPath \in bfs
  /\ bgz = [st |-> "old", tables |-> OldTables] /\ bdb.disk = OldTables

----------------------------------------------------------------------------
(* C27 *)

\* a surface bundle written by this run exists only with the complete core
\* bundle of this run
CoreBeforeSurface ==
  efs[surfaceGz] \in {"partial", "complete"} => efs[outputGz] = "complete"

\* the scratch file is copied only once its write stream has finished
ScratchReadAfterFlush ==
  epc = "surfaceCopy" => efs[rsTempPath] = "complete"

\* a step deletes the scratch file
ScratchDeleted ==
  existsSync(efs, rsTempPath) /\ ~existsSync(efs', rsTempPath)

\* C27: the core bundle is completely written before the surface
\* bundle is composed, the scratch file is read only after its write stream
\* has finished, and it is deleted only after the surface bundle's output
\* file has emitted 'finish'.
C27_ScratchDeletedAfterFinish ==
  /\ []CoreBeforeSurface
  /\ []ScratchReadAfterFlush
  /\ [][ScratchDeleted => efs[surfaceGz] = "complete"]_vars

----------------------------------------------------------------------------
(* C28 *)

\* the column holds the field's value, or NULL when the record has no such
\* field (or has it as null)
StoredOrNull(cell, field) ==
  IF field \in {Omitted, Null} THEN cell = Null ELSE cell = field

\* the rows of a table are the elements of the bundle array, in array order
TablesMatchBundles(tables) ==
  LET tc == bin.core.trafficCalming
      ra == bin.core.roundabouts
      rs == bin.surfaces
      rw == bin.ways
      T  == tables
  IN /\ Len(T["traffic_calming"]) = Len(tc)
     /\ Len(T["roundabouts"]) = Len(ra)
     /\ Len(T["road_surfaces"]) = Len(rs)
     /\ Len(T["road_ways"]) = Len(rw)
     /\ \A k \in 1..Len(tc) :
          LET row == T["traffic_calming"][k]
          IN /\ row.lat = tc[k].lat /\ row.lon = tc[k].lon /\ row.type = tc[k].type
             /\ StoredOrNull(row.end_lat, tc[k].endLat)
             /\ StoredOrNull(row.end_lon, tc[k].endLon)
             /\ StoredOrNull(row.way_id, tc[k].wayId)
             /\ IF tc[k].tags \in {Omitted, Null} THEN row.tags = Null
                ELSE row.tags = Text(tc[k].tags.v)
     /\ \A k \in 1..Len(ra) :
          LET row == T["roundabouts"][k]
          IN /\ row.lat = ra[k].lat /\ row.lon = ra[k].lon /\ row.type = ra[k].type
             /\ StoredOrNull(row.radius, ra[k].radius)
     /\ \A k \in 1..Len(rs) :
          /\ T["road_surfaces"][k].surface = rs[k].surface
          /\ T["road_surfaces"][k].coords = Text(rs[k].coords)
     /\ \A k \in 1..Len(rw) :
          /\ T["road_ways"][k].highway = rw[k].highway
          /\ T["road_ways"][k].coords = Text(rw[k].coords)

\* C28: after a successful build each of the four data tables has as many
\* rows as its bundle array has elements, the rows are in array order, and
\* an optional field that is absent in the record (endLat, endLon, wayId,
\* tags, radius) is stored as NULL.
C28_RowsMatchBundles ==
  /\ bpc \in {"Committed", "compressed"} => TablesMatchBundles(bdb.disk)
  /\ bpc = "Finalized" => TablesMatchBundles(bgz.tables)

\* a finished build of two traffic-calming records (the first without end
\* point, way id and tags), a roundabout without radius and two surfaces
C28_Witness ==
  /\ bpc = "Finalized"
  /\ Len(bgz.tables["traffic_calming"]) = 2
  /\ bgz.tables["traffic_calming"][1].end_lat = Null
  /\ bgz.tables["traffic_calming"][1].tags = Null
  /\ bgz.tables["traffic_calming"][2].way_id = Num(7)
  /\ Len(bgz.tables["roundabouts"]) = 2
  /\ bgz.tables["roundabouts"][1].radius = Null
  /\ bgz.tables["roundabouts"][2].radius = Num(3)
  /\ Len(bgz.tables["road_surfaces"]) = 2

----------------------------------------------------------------------------
(* C29 *)

TrafficCalmingCategories == {"speed_bump", "dip", "speed_camera", "bridge", "tunnel"}

\* C29: every traffic-calming record produced by classification has a
\* category in {speed_bump, dip, speed_camera, bridge, tunnel}: every value
\* of the recognized traffic_calming set is a bump or a dip synonym, so no
\* emitted record carries a raw tag value.
C29_CategoriesClosed ==
  /\ TRAFFIC_CALMING_TYPES \subseteq (bumpTypes \cup dipTypes)
  /\ (cpc = "done") =>
        \A i \in DOMAIN TCOut : TCOut[i].type \in TrafficCalmingCategories

\* a Point tagged traffic_calming=cushion, recorded as a speed bump
C29_Witness ==
  /\ Classified("Point") /\ Is(cIn.props, "traffic_calming", "cushion")
  /\ Len(TCOut) >= 1 /\ TCOut[1].type = "speed_bump"

----------------------------------------------------------------------------
(* C30 *)

\* C30: a LineString (of at least one vertex) tagged bridge=yes or
\* tunnel=yes produces exactly one traffic-calming record, of category
\* "bridge" when bridge=yes (also with tunnel=yes) and "tunnel" otherwise,
\* with lat/lon the first vertex and endLat/endLon the last vertex; a Point
\* or a Polygon never produces a bridge or tunnel record.
C30_BridgeTunnelRecord ==
  /\ (/\ ClassifiedWay
      /\ Is(cIn.props, "bridge", "yes") \/ Is(cIn.props, "tunnel", "yes")) =>
        /\ Len(TCOut) = 1
        /\ TCOut[1].type =
             IF Is(cIn.props, "bridge", "yes") THEN "bridge" ELSE "tunnel"
        /\ LET c == cIn.coords.line
           IN /\ TCOut[1].lon = c[1][1] /\ TCOut[1].lat = c[1][2]
              /\ TCOut[1].endLon = Num(c[Len(c)][1])
              /\ TCOut[1].endLat = Num(c[Len(c)][2])
  /\ (cpc = "done" /\ cIn.kind = "feature" /\ cIn.gtype \in {"Point", "Polygon"}) =>
        \A i \in DOMAIN TCOut : TCOut[i].type \notin {"bridge", "tunnel"}

\* a line tagged bridge=yes and tunnel=yes: one record, a bridge, from the
\* first vertex to the last
C30_Witness ==
  /\ ClassifiedWay /\ cIn.coords.line = <<VA, VB, VC>>
  /\ Is(cIn.props, "bridge", "yes") /\ Is(cIn.props, "tunnel", "yes")
  /\ Len(TCOut) = 1 /\ TCOut[1].type = "bridge"
  /\ TCOut[1].lon = VA[1] /\ TCOut[1].endLon = Num(VC[1])

====
